---- MODULE Spec2Model ----
(***************************************************************************)
(* Risk gate (core/risk_manager.py) and execution coordinator              *)
(* (core/trading_engine.py) of the automated trading system.               *)
(*                                                                         *)
(* Units.  Money and prices are integers (dollars).  A percentage of the   *)
(* configuration is an integer number of basis points: 0.05 is 500 and     *)
(* 1.0 is PctScale.  A product "value * pct" is therefore kept scaled by   *)
(* PctScale and compared against operands scaled the same way, so every    *)
(* comparison and every floor is the exact one of the real-number          *)
(* expression the Python code evaluates in binary floating point.          *)
(* A calendar date is an integer day number.                               *)
(***************************************************************************)
EXTENDS Integers, Sequences, FiniteSets, TLC

\* Python's Optional: None is the empty sequence, a value v is <<v>>.
None == << >>

Some(v) == <<v>>

\* A Python dict d with d[k] = v set.
DictSet(d, k, v) == [x \in DOMAIN d \cup {k} |-> IF x = k THEN v ELSE d[x]]

PctScale == 100 * 100

Min(a, b) == IF a <= b THEN a ELSE b

Max(a, b) == IF a >= b THEN a ELSE b

\* Python's int(num / den): the quotient truncated toward zero (den > 0).
IntTrunc(num, den) == IF num >= 0 THEN num \div den ELSE -((-num) \div den)

(***************************************************************************)
(* RiskManagementConfig (config/config.py), in basis points.               *)
(***************************************************************************)
max_position_size_pct == 1000

max_total_exposure_pct == 5000

max_daily_loss_pct == 500

\* The default is 20; the model keeps the cap small enough to be reached.
max_daily_trades == 3

trailing_stop_activation_pct == 150

trailing_stop_distance_pct == 100

\* DataConfig.stream_symbols, cut to two symbols of the watchlist.
Symbols == {"SPY", "QQQ"}

(***************************************************************************)
(* Bounds and input sets of the model.                                     *)
(***************************************************************************)
MaxDay == 2

Days == 0..MaxDay

AccountValues == {2000, 10000}

TradePnls == {-300, -250, 200}

VARIABLES
    risk_config,        \* the configuration fields the model varies
    now,                \* datetime.now().date(), a day number
    daily_pnl,          \* RiskManager.daily_pnl
    daily_trades,       \* RiskManager.daily_trades
    daily_reset_time,   \* RiskManager.daily_reset_time.date()
    trailing_stops,     \* RiskManager.trailing_stops: a dict symbol -> stop (scaled)
    consecutive_losses, \* RiskManager.consecutive_losses: a dict symbol -> count
    call,               \* the last RiskManager call: operation, arguments, state before, result
    trading_mode,       \* config.general.trading_mode.value
    stream_symbols,     \* config.data.stream_symbols, the static watchlist
    running,            \* TradingEngine.running
    stop_event,         \* TradingEngine.stop_event
    active_positions,   \* TradingEngine.active_positions: a dict symbol -> position info
    total_pnl,          \* TradingEngine.total_pnl
    orders,             \* the number of orders place_order accepted
    scan_pc,            \* where _market_monitor_loop stands
    scan_local,         \* its locals: account_value, the date it read, symbol and strategy index, indicators
    mon_pc,             \* where _position_monitor_loop stands
    mon_positions,      \* the broker positions it has still to visit
    mon_local,          \* its locals for the position it visits
    close_local,        \* the locals of the _close_position call in progress
    main_local,         \* where main() stands, and its configuration and exit code
    entries,            \* history: the number of ledger inserts so far
    recorded_pnl,       \* history: the sum of the PnL recorded since the last daily reset
    recorded_trades     \* history: the number of trades recorded since the last daily reset

riskVars == <<risk_config, now, daily_pnl, daily_trades, daily_reset_time, trailing_stops, consecutive_losses>>

engineVars == <<trading_mode, stream_symbols, running, stop_event, active_positions, total_pnl, orders,
                scan_pc, scan_local, mon_pc, mon_positions, mon_local, close_local,
                main_local, entries, recorded_pnl, recorded_trades>>

vars == <<risk_config, now, daily_pnl, daily_trades, daily_reset_time, trailing_stops, consecutive_losses, call,
          trading_mode, stream_symbols, running, stop_event, active_positions, total_pnl, orders,
          scan_pc, scan_local, mon_pc, mon_positions, mon_local, close_local,
          main_local, entries, recorded_pnl, recorded_trades>>

NoCall == [op |-> "none"]

NoScanLocal == [account_value |-> 0, can_trade |-> TRUE, today |-> 0, idx |-> 0, strat |-> 0, indicators |-> None, failed |-> {}]

NoMonLocal == [symbol |-> ""]

NoCloseLocal == [reason |-> ""]

NoMainLocal == [pc |-> "none"]

\* The values of risk_config.stop_loss_type; "atr_band" stands for any string
\* calculate_stop_loss does not know.
StopLossTypes == {"static", "dynamic", "atr_band"}

\* The configuration fields the model varies.
RiskConfigs ==
    [trailing_stop_enabled : BOOLEAN, enable_martingale : BOOLEAN,
     stop_loss_type : StopLossTypes]

\* The shipped configuration, with trailing stops switched on or off.
DefaultRiskConfigs ==
    {c \in RiskConfigs : ~c.enable_martingale /\ c.stop_loss_type = "dynamic"}

\* The watchlist in scan order: one symbol, and two for the properties of a
\* scan pass over several candidates.
ScanList == <<"SPY">>

WideScanList == <<"SPY", "QQQ">>

\* RiskManager.__init__ and TradingEngine.__init__ under a configuration of
\* configs: the counters start at zero, the boundary at today's midnight, the
\* ledger and the dicts empty, no thread started.
InitModes(configs, symbols, modes) ==
    /\ risk_config \in configs
    /\ stream_symbols = symbols
    /\ now = 0
    /\ daily_pnl = 0
    /\ daily_trades = 0
    /\ daily_reset_time = 0
    /\ trailing_stops = << >>
    /\ consecutive_losses = << >>
    /\ call = NoCall
    /\ trading_mode \in modes
    /\ running = FALSE
    /\ stop_event = FALSE
    /\ active_positions = << >>
    /\ total_pnl = 0
    /\ orders = 0
    /\ scan_pc = "none"
    /\ scan_local = NoScanLocal
    /\ mon_pc = "none"
    /\ mon_positions = << >>
    /\ mon_local = NoMonLocal
    /\ close_local = NoCloseLocal
    /\ main_local = NoMainLocal
    /\ entries = 0
    /\ recorded_pnl = 0
    /\ recorded_trades = 0

\* The same in paper mode or live mode.
InitWatching(configs, symbols) == InitModes(configs, symbols, {"paper", "live"})

\* The same with the one-symbol watchlist.
InitConfig(configs) == InitWatching(configs, ScanList)

\* The engine and its RiskManager as shipped.
Init == InitConfig(DefaultRiskConfigs)

\* A RiskManager constructed under any configuration.
InitAnyConfig == InitConfig(RiskConfigs)

(***************************************************************************)
(* The wall clock.                                                         *)
(***************************************************************************)
\* Midnight passes.
Tick ==
    /\ now < MaxDay
    /\ now' = now + 1
    /\ UNCHANGED <<risk_config, daily_pnl, daily_trades, daily_reset_time, trailing_stops, consecutive_losses, call>>
    /\ UNCHANGED engineVars

\* The wall clock is set back across midnight (datetime.now() is not monotonic).
ClockSetBack ==
    /\ now > 0
    /\ now' = now - 1
    /\ UNCHANGED <<risk_config, daily_pnl, daily_trades, daily_reset_time, trailing_stops, consecutive_losses, call>>
    /\ UNCHANGED engineVars

(***************************************************************************)
(* DailyRiskState: reset_daily_stats, can_trade, record_trade.             *)
(***************************************************************************)
\* Mutant of ResetDailyStats: the date test admits the boundary date itself.
ResetDailyStats_SameDay(today, pnl, trades, boundary) ==
    IF today >= boundary
    THEN [pnl |-> 0, trades |-> 0, boundary |-> today]
    ELSE [pnl |-> pnl, trades |-> trades, boundary |-> boundary]

\* reset_daily_stats: the state <<pnl, trades, boundary>> it leaves.
ResetDailyStats(today, pnl, trades, boundary) ==
    IF today > boundary
    THEN [pnl |-> 0, trades |-> 0, boundary |-> today]
    ELSE [pnl |-> pnl, trades |-> trades, boundary |-> boundary]

\* Mutant of CanTradeCheck: the trade cap is tested with > instead of >=.
CanTradeCheck_CapOffByOne(pnl, trades, account_value) ==
    IF pnl * PctScale < -(account_value * max_daily_loss_pct)
    THEN [allowed |-> FALSE, reason |-> "Daily loss limit reached"]
    ELSE IF trades > max_daily_trades
         THEN [allowed |-> FALSE, reason |-> "Daily trade limit reached"]
         ELSE [allowed |-> TRUE, reason |-> "OK"]

\* Mutant of CanTradeCheck: the loss limit is tested with <= instead of <.
CanTradeCheck_LossInclusive(pnl, trades, account_value) ==
    IF pnl * PctScale <= -(account_value * max_daily_loss_pct)
    THEN [allowed |-> FALSE, reason |-> "Daily loss limit reached"]
    ELSE IF trades >= max_daily_trades
         THEN [allowed |-> FALSE, reason |-> "Daily trade limit reached"]
         ELSE [allowed |-> TRUE, reason |-> "OK"]

\* can_trade after the reset: the two limit checks, in the code's order.
CanTradeCheck(pnl, trades, account_value) ==
    IF pnl * PctScale < -(account_value * max_daily_loss_pct)
    THEN [allowed |-> FALSE, reason |-> "Daily loss limit reached"]
    ELSE IF trades >= max_daily_trades
         THEN [allowed |-> FALSE, reason |-> "Daily trade limit reached"]
         ELSE [allowed |-> TRUE, reason |-> "OK"]

\* can_trade(account_value), called by one caller at a time.
CanTrade(account_value) ==
    LET st == ResetDailyStats(now, daily_pnl, daily_trades, daily_reset_time)
        r  == CanTradeCheck(st.pnl, st.trades, account_value)
    IN  /\ daily_pnl' = st.pnl
        /\ daily_trades' = st.trades
        /\ daily_reset_time' = st.boundary
        /\ call' = [op |-> "can_trade", account_value |-> account_value,
                    today |-> now, pre_pnl |-> daily_pnl, pre_trades |-> daily_trades,
                    pre_boundary |-> daily_reset_time,
                    allowed |-> r.allowed, reason |-> r.reason]
        /\ UNCHANGED <<risk_config, now, trailing_stops, consecutive_losses>>
        /\ UNCHANGED engineVars

\* record_trade(pnl), called by one caller at a time.  The code never refuses a
\* trade; the model stops recording one trade past the daily cap.
RecordTrade(pnl) ==
    /\ daily_trades <= max_daily_trades
    /\ daily_pnl' = daily_pnl + pnl
    /\ daily_trades' = daily_trades + 1
    /\ call' = [op |-> "record_trade", pnl |-> pnl]
    /\ UNCHANGED <<risk_config, now, daily_reset_time, trailing_stops, consecutive_losses>>
    /\ UNCHANGED engineVars

NextDailyRisk ==
    \/ Tick
    \/ ClockSetBack
    \/ \E av \in AccountValues : CanTrade(av)
    \/ \E p \in TradePnls : RecordTrade(p)

\* The risk gate's daily state under sequential calls.
SpecDailyRisk == Init /\ [][NextDailyRisk]_vars

(***************************************************************************)
(* Trailing stops: update_trailing_stop.                                   *)
(* A stored stop is a price scaled by PctScale.                            *)
(***************************************************************************)
TrailEntries == {100}

TrailPrices == {95, 97, 98, 99, 101, 102, 103, 105}

\* Mutant of UpdateTrailingStopResult: the candidate is stored without the max/min
\* against the existing stop.
UpdateTrailingStopResult_NoRatchet(stops, enabled, symbol, current_price, entry_price, is_long) ==
    IF ~enabled
    THEN [ret |-> None, stops |-> stops]
    ELSE IF is_long
         THEN IF (current_price - entry_price) * PctScale >= trailing_stop_activation_pct * entry_price
              THEN LET new_stop == current_price * PctScale - current_price * trailing_stop_distance_pct
                   IN  [ret |-> Some(new_stop), stops |-> DictSet(stops, symbol, new_stop)]
              ELSE [ret |-> None, stops |-> stops]
         ELSE IF (entry_price - current_price) * PctScale >= trailing_stop_activation_pct * entry_price
              THEN LET new_stop == current_price * PctScale + current_price * trailing_stop_distance_pct
                   IN  [ret |-> Some(new_stop), stops |-> DictSet(stops, symbol, new_stop)]
              ELSE [ret |-> None, stops |-> stops]

\* Mutant of UpdateTrailingStopResult: None is returned when the stored stop does
\* not change.
UpdateTrailingStopResult_NoneWhenUnchanged(stops, enabled, symbol, current_price, entry_price, is_long) ==
    IF ~enabled
    THEN [ret |-> None, stops |-> stops]
    ELSE IF is_long
         THEN IF (current_price - entry_price) * PctScale >= trailing_stop_activation_pct * entry_price
              THEN LET candidate == current_price * PctScale - current_price * trailing_stop_distance_pct
                       new_stop  == IF symbol \in DOMAIN stops
                                    THEN Max(candidate, stops[symbol]) ELSE candidate
                   IN  [ret   |-> IF DictSet(stops, symbol, new_stop) = stops
                                  THEN None ELSE Some(new_stop),
                        stops |-> DictSet(stops, symbol, new_stop)]
              ELSE [ret |-> None, stops |-> stops]
         ELSE IF (entry_price - current_price) * PctScale >= trailing_stop_activation_pct * entry_price
              THEN LET candidate == current_price * PctScale + current_price * trailing_stop_distance_pct
                       new_stop  == IF symbol \in DOMAIN stops
                                    THEN Min(candidate, stops[symbol]) ELSE candidate
                   IN  [ret   |-> IF DictSet(stops, symbol, new_stop) = stops
                                  THEN None ELSE Some(new_stop),
                        stops |-> DictSet(stops, symbol, new_stop)]
              ELSE [ret |-> None, stops |-> stops]

\* Mutant of UpdateTrailingStopResult: any profit activates the trailing stop.
UpdateTrailingStopResult_NoThreshold(stops, enabled, symbol, current_price, entry_price, is_long) ==
    IF ~enabled
    THEN [ret |-> None, stops |-> stops]
    ELSE IF is_long
         THEN IF (current_price - entry_price) * PctScale >= 0
              THEN LET candidate == current_price * PctScale - current_price * trailing_stop_distance_pct
                       new_stop  == IF symbol \in DOMAIN stops
                                    THEN Max(candidate, stops[symbol]) ELSE candidate
                   IN  [ret |-> Some(new_stop), stops |-> DictSet(stops, symbol, new_stop)]
              ELSE [ret |-> None, stops |-> stops]
         ELSE IF (entry_price - current_price) * PctScale >= 0
              THEN LET candidate == current_price * PctScale + current_price * trailing_stop_distance_pct
                       new_stop  == IF symbol \in DOMAIN stops
                                    THEN Min(candidate, stops[symbol]) ELSE candidate
                   IN  [ret |-> Some(new_stop), stops |-> DictSet(stops, symbol, new_stop)]
              ELSE [ret |-> None, stops |-> stops]

\* update_trailing_stop(symbol, current_price, entry_price, is_long): the value it
\* returns and the trailing_stops it leaves.  profit_pct >= activation_pct is
\* compared cross-multiplied by entry_price (> 0).
UpdateTrailingStopResult(stops, enabled, symbol, current_price, entry_price, is_long) ==
    IF ~enabled
    THEN [ret |-> None, stops |-> stops]
    ELSE IF is_long
         THEN IF (current_price - entry_price) * PctScale >= trailing_stop_activation_pct * entry_price
              THEN LET trail_distance == current_price * trailing_stop_distance_pct
                       candidate      == current_price * PctScale - trail_distance
                       new_stop       == IF symbol \in DOMAIN stops
                                         THEN Max(candidate, stops[symbol]) ELSE candidate
                   IN  [ret |-> Some(new_stop), stops |-> DictSet(stops, symbol, new_stop)]
              ELSE [ret |-> None, stops |-> stops]
         ELSE IF (entry_price - current_price) * PctScale >= trailing_stop_activation_pct * entry_price
              THEN LET trail_distance == current_price * trailing_stop_distance_pct
                       candidate      == current_price * PctScale + trail_distance
                       new_stop       == IF symbol \in DOMAIN stops
                                         THEN Min(candidate, stops[symbol]) ELSE candidate
                   IN  [ret |-> Some(new_stop), stops |-> DictSet(stops, symbol, new_stop)]
              ELSE [ret |-> None, stops |-> stops]

\* A call of update_trailing_stop.
UpdateTrailingStop(symbol, current_price, entry_price, is_long) ==
    LET r == UpdateTrailingStopResult(trailing_stops, risk_config.trailing_stop_enabled,
                                      symbol, current_price, entry_price, is_long)
    IN  /\ trailing_stops' = r.stops
        /\ call' = [op |-> "update_trailing_stop", symbol |-> symbol,
                    current_price |-> current_price, entry_price |-> entry_price,
                    is_long |-> is_long, pre_stops |-> trailing_stops, ret |-> r.ret]
        /\ UNCHANGED <<risk_config, now, daily_pnl, daily_trades, daily_reset_time,
                       consecutive_losses>>
        /\ UNCHANGED engineVars

NextTrailing ==
    \E s \in Symbols, cp \in TrailPrices, ep \in TrailEntries, l \in BOOLEAN :
        UpdateTrailingStop(s, cp, ep, l)

\* The trailing stops under any sequence of update_trailing_stop calls.
SpecTrailing == Init /\ [][NextTrailing]_vars

(***************************************************************************)
(* The stop-loss price: calculate_stop_loss.  Prices and the ATR are whole   *)
(* dollars; the returned price is scaled by PctScale.                      *)
(***************************************************************************)
static_stop_loss_pct == 200

dynamic_stop_loss_atr_multiplier == 2

StopEntries == {50, 100}

\* The atr argument: absent, or a value; a flat series has an ATR of 0.
OptAtrs == {None, Some(0), Some(2), Some(3)}

\* entry_price * (1 -/+ static_stop_loss_pct)
StaticStopLoss(entry_price, is_long) ==
    IF is_long
    THEN entry_price * (PctScale - static_stop_loss_pct)
    ELSE entry_price * (PctScale + static_stop_loss_pct)

\* entry_price -/+ atr * dynamic_stop_loss_atr_multiplier
DynamicStopLoss(entry_price, is_long, atr) ==
    IF is_long
    THEN (entry_price - atr * dynamic_stop_loss_atr_multiplier) * PctScale
    ELSE (entry_price + atr * dynamic_stop_loss_atr_multiplier) * PctScale

\* Mutant of CalculateStopLoss: the dynamic branch is taken whenever an atr is
\* passed, also an atr of 0.
CalculateStopLoss_AnyAtr(stop_loss_type, entry_price, is_long, atr) ==
    IF stop_loss_type = "static"
    THEN StaticStopLoss(entry_price, is_long)
    ELSE IF stop_loss_type = "dynamic" /\ atr # None
         THEN DynamicStopLoss(entry_price, is_long, atr[1])
         ELSE StaticStopLoss(entry_price, is_long)

\* calculate_stop_loss: "and atr" is false for None and for 0.
CalculateStopLoss(stop_loss_type, entry_price, is_long, atr) ==
    IF stop_loss_type = "static"
    THEN StaticStopLoss(entry_price, is_long)
    ELSE IF stop_loss_type = "dynamic" /\ atr # None /\ atr # Some(0)
         THEN DynamicStopLoss(entry_price, is_long, atr[1])
         ELSE StaticStopLoss(entry_price, is_long)

\* A call of calculate_stop_loss.
CalculateStopLossCall(entry_price, is_long, atr) ==
    /\ call' = [op |-> "calculate_stop_loss", stop_loss_type |-> risk_config.stop_loss_type,
                entry_price |-> entry_price, is_long |-> is_long, atr |-> atr,
                ret |-> CalculateStopLoss(risk_config.stop_loss_type, entry_price,
                                          is_long, atr)]
    /\ UNCHANGED riskVars
    /\ UNCHANGED engineVars

NextStops ==
    \E e \in StopEntries, l \in BOOLEAN, a \in OptAtrs : CalculateStopLossCall(e, l, a)

\* calculate_stop_loss applied to every input, under every configuration.
SpecStops == InitAnyConfig /\ [][NextStops]_vars

(***************************************************************************)
(* Martingale sizing: apply_martingale and the per-symbol loss counters.   *)
(***************************************************************************)
martingale_max_doublings == 2

\* The consecutive losses a symbol is followed through.
MaxLosses == 4

BaseSizes == {1, 10}

\* dict.get(key, default)
DictGet(d, k, default) == IF k \in DOMAIN d THEN d[k] ELSE default

\* Mutant of ApplyMartingaleResult: the doublings are not capped.
ApplyMartingaleResult_NoCap(losses, enabled, symbol, base_size, lost_previous_trade) ==
    IF ~enabled
    THEN [ret |-> base_size, losses |-> losses]
    ELSE LET counted == IF lost_previous_trade
                        THEN DictSet(losses, symbol, DictGet(losses, symbol, 0) + 1)
                        ELSE DictSet(losses, symbol, 0)
         IN  [ret |-> base_size * 2 ^ DictGet(counted, symbol, 0), losses |-> counted]

\* Mutant of ApplyMartingaleResult: the counter is kept also when martingale is
\* disabled.
ApplyMartingaleResult_CountsWhenDisabled(losses, enabled, symbol, base_size, lost_previous_trade) ==
    LET counted == IF lost_previous_trade
                   THEN DictSet(losses, symbol, DictGet(losses, symbol, 0) + 1)
                   ELSE DictSet(losses, symbol, 0)
    IN  IF ~enabled
        THEN [ret |-> base_size, losses |-> counted]
        ELSE [ret |-> base_size * 2 ^ Min(DictGet(counted, symbol, 0),
                                          martingale_max_doublings),
              losses |-> counted]

\* apply_martingale(symbol, base_size, lost_previous_trade): the size it
\* returns and the consecutive_losses it leaves.
ApplyMartingaleResult(losses, enabled, symbol, base_size, lost_previous_trade) ==
    IF ~enabled
    THEN [ret |-> base_size, losses |-> losses]
    ELSE LET counted == IF lost_previous_trade
                        THEN DictSet(losses, symbol, DictGet(losses, symbol, 0) + 1)
                        ELSE DictSet(losses, symbol, 0)
             doublings == Min(DictGet(counted, symbol, 0), martingale_max_doublings)
         IN  [ret |-> base_size * 2 ^ doublings, losses |-> counted]

\* A call of apply_martingale.
ApplyMartingale(symbol, base_size, lost_previous_trade) ==
    LET r == ApplyMartingaleResult(consecutive_losses, risk_config.enable_martingale,
                                   symbol, base_size, lost_previous_trade)
    IN  /\ lost_previous_trade => DictGet(consecutive_losses, symbol, 0) < MaxLosses
        /\ consecutive_losses' = r.losses
        /\ call' = [op |-> "apply_martingale", symbol |-> symbol, base_size |-> base_size,
                    lost_previous_trade |-> lost_previous_trade,
                    enabled |-> risk_config.enable_martingale,
                    pre_losses |-> consecutive_losses, ret |-> r.ret]
        /\ UNCHANGED <<risk_config, now, daily_pnl, daily_trades, daily_reset_time,
                       trailing_stops>>
        /\ UNCHANGED engineVars

NextMartingale ==
    \E s \in Symbols, b \in BaseSizes, l \in BOOLEAN : ApplyMartingale(s, b, l)

\* The loss counters under any sequence of apply_martingale calls, under
\* every configuration.
SpecMartingale == InitAnyConfig /\ [][NextMartingale]_vars

(***************************************************************************)
(* Position sizing: _fixed_fractional_size, _kelly_criterion_size.         *)
(* win_rate is in basis points; the Kelly fraction is kept scaled by       *)
(* 4 * PctScale, which makes the halved fraction an integer.               *)
(***************************************************************************)
SizeEntries == {7, 50, 300}

SizeStops == {45, 49}

SizeExposures == {0, 4500, 5000, 6000}

WinRates == {2000, 3400, 4000, 6000}

Abs(x) == IF x >= 0 THEN x ELSE -x

\* Mutant of FixedFractionalSize: the exposure still open is not taken into account.
FixedFractionalSize_NoExposureCap(entry_price, stop_loss_price, account_value, current_positions_value) ==
    LET max_position_value == account_value * max_position_size_pct
    IN  IF max_position_value <= 0
        THEN 0
        ELSE Max(0, IntTrunc(max_position_value, entry_price * PctScale))

\* _fixed_fractional_size: risk_per_share is computed and never used.
FixedFractionalSize(entry_price, stop_loss_price, account_value, current_positions_value) ==
    LET risk_per_share      == Abs(entry_price - stop_loss_price)
        max_position_value0 == account_value * max_position_size_pct
        remaining_exposure  == account_value * max_total_exposure_pct
                                   - current_positions_value * PctScale
        max_position_value  == Min(max_position_value0, remaining_exposure)
    IN  IF max_position_value <= 0
        THEN 0
        ELSE Max(0, IntTrunc(max_position_value, entry_price * PctScale))

\* Mutant of KellyPct4: the full Kelly fraction, not halved.
KellyPct4_FullKelly(win_rate) ==
    LET kelly_x2 == 2 * win_rate - (PctScale - win_rate)
    IN  Min(Max(0, 2 * kelly_x2), 4 * max_position_size_pct)

\* kelly_pct of _kelly_criterion_size, scaled by 4 * PctScale:
\* W - (1 - W) / 2.0, halved, floored at 0, capped at max_position_size_pct.
KellyPct4(win_rate) ==
    LET kelly_x2 == 2 * win_rate - (PctScale - win_rate)
        half4    == Max(0, kelly_x2)
    IN  Min(half4, 4 * max_position_size_pct)

\* _kelly_criterion_size.
KellyCriterionSize(entry_price, stop_loss_price, account_value, current_positions_value, win_rate) ==
    LET max_position_value0 == account_value * KellyPct4(win_rate)
        remaining_exposure  == 4 * (account_value * max_total_exposure_pct
                                        - current_positions_value * PctScale)
        max_position_value  == Min(max_position_value0, remaining_exposure)
    IN  IF max_position_value <= 0
        THEN 0
        ELSE Max(0, IntTrunc(max_position_value, entry_price * 4 * PctScale))

\* Mutant of VolatilityAdjustedSize: the size is what the risk per share
\* allows, as a volatility-based method would compute it.
VolatilityAdjustedSize_ByRiskPerShare(symbol, entry_price, stop_loss_price, account_value, current_positions_value) ==
    LET risk_per_share == Abs(entry_price - stop_loss_price)
    IN  IF risk_per_share = 0
        THEN 0
        ELSE IntTrunc(account_value * max_position_size_pct, risk_per_share * PctScale * 10)

\* _volatility_adjusted_size: a placeholder that hands its prices and values
\* to _fixed_fractional_size; it has no ATR parameter and reads no market data.
VolatilityAdjustedSize(symbol, entry_price, stop_loss_price, account_value, current_positions_value) ==
    FixedFractionalSize(entry_price, stop_loss_price, account_value, current_positions_value)

\* The values of risk_config.position_sizing_method; "equal_weight" stands for
\* any string the dispatch does not know.
SizingMethods == {"fixed_fractional", "kelly_criterion", "volatility_adjusted", "equal_weight"}

\* The win_rate argument: absent, zero, or a rate.
OptWinRates == {None, Some(0), Some(4000)}

\* Mutant of CalculatePositionSize: "kelly_criterion" goes to the Kelly formula
\* whether or not a win rate is given, a missing rate counting as 0.
CalculatePositionSize_KellyWithoutRate(method, symbol, entry_price, stop_loss_price, account_value, current_positions_value, win_rate) ==
    IF method = "fixed_fractional"
    THEN FixedFractionalSize(entry_price, stop_loss_price, account_value, current_positions_value)
    ELSE IF method = "kelly_criterion"
         THEN KellyCriterionSize(entry_price, stop_loss_price, account_value,
                                 current_positions_value,
                                 IF win_rate = None THEN 0 ELSE win_rate[1])
         ELSE FixedFractionalSize(entry_price, stop_loss_price, account_value,
                                  current_positions_value)

\* calculate_position_size: win_rate is an Optional, None and 0 are falsy.
CalculatePositionSize(method, symbol, entry_price, stop_loss_price, account_value, current_positions_value, win_rate) ==
    IF method = "fixed_fractional"
    THEN FixedFractionalSize(entry_price, stop_loss_price, account_value, current_positions_value)
    ELSE IF method = "kelly_criterion" /\ win_rate # None /\ win_rate # Some(0)
         THEN KellyCriterionSize(entry_price, stop_loss_price, account_value,
                                 current_positions_value, win_rate[1])
         ELSE IF method = "volatility_adjusted"
              THEN VolatilityAdjustedSize(symbol, entry_price, stop_loss_price,
                                          account_value, current_positions_value)
              ELSE FixedFractionalSize(entry_price, stop_loss_price, account_value,
                                       current_positions_value)

\* A call of _fixed_fractional_size.
FixedFractionalSizeCall(entry_price, stop_loss_price, account_value, current_positions_value) ==
    /\ call' = [op |-> "fixed_fractional", entry_price |-> entry_price,
                stop_loss_price |-> stop_loss_price, account_value |-> account_value,
                current_positions_value |-> current_positions_value,
                ret |-> FixedFractionalSize(entry_price, stop_loss_price, account_value,
                                            current_positions_value)]
    /\ UNCHANGED riskVars
    /\ UNCHANGED engineVars

\* A call of _kelly_criterion_size.
KellyCriterionSizeCall(entry_price, stop_loss_price, account_value, current_positions_value, win_rate) ==
    /\ call' = [op |-> "kelly_criterion", entry_price |-> entry_price,
                stop_loss_price |-> stop_loss_price, account_value |-> account_value,
                current_positions_value |-> current_positions_value,
                win_rate |-> win_rate, kelly_pct4 |-> KellyPct4(win_rate),
                ret |-> KellyCriterionSize(entry_price, stop_loss_price, account_value,
                                           current_positions_value, win_rate)]
    /\ UNCHANGED riskVars
    /\ UNCHANGED engineVars

\* A call of calculate_position_size under a configured sizing method.
CalculatePositionSizeCall(method, symbol, entry_price, stop_loss_price, account_value, current_positions_value, win_rate) ==
    /\ call' = [op |-> "calculate_position_size", method |-> method, symbol |-> symbol,
                entry_price |-> entry_price, stop_loss_price |-> stop_loss_price,
                account_value |-> account_value,
                current_positions_value |-> current_positions_value, win_rate |-> win_rate,
                ret |-> CalculatePositionSize(method, symbol, entry_price, stop_loss_price,
                            account_value, current_positions_value, win_rate)]
    /\ UNCHANGED riskVars
    /\ UNCHANGED engineVars

NextSizing ==
    \/ \E e \in SizeEntries, s \in SizeStops, av \in AccountValues, x \in SizeExposures :
           FixedFractionalSizeCall(e, s, av, x)
    \/ \E e \in SizeEntries, s \in SizeStops, av \in AccountValues, x \in SizeExposures,
           w \in WinRates :
           KellyCriterionSizeCall(e, s, av, x, w)
    \/ \E m \in SizingMethods, sym \in Symbols, e \in SizeEntries, s \in SizeStops,
           av \in AccountValues, x \in SizeExposures, w \in OptWinRates :
           CalculatePositionSizeCall(m, sym, e, s, av, x, w)

\* The sizing functions applied to every input of the input sets.
SpecSizing == Init /\ [][NextSizing]_vars

(***************************************************************************)
(* The execution coordinator (core/trading_engine.py).                     *)
(* Two threads, _market_monitor_loop (scan) and _position_monitor_loop     *)
(* (monitor), share active_positions and the RiskManager without a lock.   *)
(* A step of a thread holds one access to state the other thread writes,   *)
(* with the network calls and the local control flow around it; the two    *)
(* reads of can_trade are one step, every result of theirs being that of   *)
(* a snapshot.  Python gives no atomicity to "x += y" on an attribute, so  *)
(* record_trade is a read step and a write step for each counter.          *)
(* trailing_stops is touched by the monitor thread alone.                  *)
(***************************************************************************)
MaxEntries == 2

MaxEngineDay == 1

\* The strategies in configured order.
Strategies == <<"MomentumScalper", "TrendFollower">>

EngineAccountValues == {10000}

\* lastPrice of a quote; 0 is a response without lastPrice.
QuotePrices == {0, 52}

BrokerQuantities == {20, -20}

BrokerPosition(s, q) == [symbol |-> s, quantity |-> q, averagePrice |-> 50]

\* What get_positions() may return: nothing, the watched symbol long or short,
\* and the same after a holding the engine does not track.
BrokerPositionLists ==
    {<< >>}
        \cup {<<BrokerPosition("SPY", q)>> : q \in BrokerQuantities}
        \cup {<<BrokerPosition("QQQ", 20), BrokerPosition("SPY", q)>> : q \in BrokerQuantities}

\* sum(abs(longQuantity - shortQuantity) * averagePrice for p in positions)
RECURSIVE CurrentExposure(_)
CurrentExposure(positions) ==
    IF positions = << >>
    THEN 0
    ELSE Abs(Head(positions).quantity) * Head(positions).averagePrice
             + CurrentExposure(Tail(positions))

\* Stop-loss and take-profit levels are kept in units of 1 / LevelScale of a
\* dollar, which makes the levels of the strategies whole numbers; so is the
\* ATR.  Entry and quoted prices are whole dollars.
LevelScale == 3 * PctScale

\* TechnicalIndicators of a price history, as calculate_indicators returns
\* them: a rising series whose RSI is oversold, a falling series whose RSI is
\* overbought, and the rising series when it is flat enough for an ATR of 0.
\* The ATR of the first two is 2/3 of a dollar; volume_ratio is in tenths.
RisingIndicators ==
    [close |-> 50, atr |-> Some(2 * PctScale), rsi |-> Some(25),
     ema8 |-> Some(49), ema21 |-> Some(48), ema50 |-> Some(47),
     macd |-> Some(2), macd_signal |-> Some(1), volume_ratio |-> Some(20)]

FallingIndicators ==
    [close |-> 50, atr |-> Some(2 * PctScale), rsi |-> Some(75),
     ema8 |-> Some(51), ema21 |-> Some(52), ema50 |-> Some(53),
     macd |-> Some(-2), macd_signal |-> Some(-1), volume_ratio |-> Some(20)]

IndicatorSets ==
    {RisingIndicators, FallingIndicators, [RisingIndicators EXCEPT !.atr = Some(0)]}

\* "not x" of an Optional number: None and 0 are falsy.
Falsy(x) == x = None \/ x = Some(0)

\* Signal(symbol, direction, entry_price, stop_loss, take_profit, strategy_name)
Signal(symbol, direction, entry_price, stop_loss, take_profit, strategy_name) ==
    [symbol |-> symbol, direction |-> direction, entry_price |-> entry_price,
     stop_loss |-> stop_loss, take_profit |-> take_profit,
     strategy_name |-> strategy_name]

\* Mutant of MomentumScalperAnalyze: a signal is built also without an ATR
\* worth the name.
MomentumScalperAnalyze_NoAtrTest(symbol, indicators) ==
    IF Falsy(indicators.rsi) \/ indicators.atr = None
    THEN None
    ELSE IF ~Falsy(indicators.volume_ratio) /\ indicators.volume_ratio[1] < 15
    THEN None
    ELSE IF Falsy(indicators.ema8) \/ Falsy(indicators.ema21)
    THEN None
    ELSE IF indicators.rsi[1] < 30 /\ indicators.ema8[1] > indicators.ema21[1]
    THEN Some(Signal(symbol, "LONG", indicators.close,
                     indicators.close * LevelScale - IntTrunc(indicators.atr[1] * 3, 2),
                     indicators.close * LevelScale + indicators.atr[1] * 3,
                     "MomentumScalper"))
    ELSE IF indicators.rsi[1] > 70 /\ indicators.ema8[1] < indicators.ema21[1]
    THEN Some(Signal(symbol, "SHORT", indicators.close,
                     indicators.close * LevelScale + IntTrunc(indicators.atr[1] * 3, 2),
                     indicators.close * LevelScale - indicators.atr[1] * 3,
                     "MomentumScalper"))
    ELSE None

\* MomentumScalper.analyze: oversold in a bullish short-term trend is a long
\* signal, overbought in a bearish one a short signal; the stop is 1.5 ATR
\* and the target 3 ATR from the close.
MomentumScalperAnalyze(symbol, indicators) ==
    IF Falsy(indicators.rsi) \/ Falsy(indicators.atr)
    THEN None
    ELSE IF ~Falsy(indicators.volume_ratio) /\ indicators.volume_ratio[1] < 15
    THEN None
    ELSE IF Falsy(indicators.ema8) \/ Falsy(indicators.ema21)
    THEN None
    ELSE IF indicators.rsi[1] < 30 /\ indicators.ema8[1] > indicators.ema21[1]
    THEN Some(Signal(symbol, "LONG", indicators.close,
                     indicators.close * LevelScale - IntTrunc(indicators.atr[1] * 3, 2),
                     indicators.close * LevelScale + indicators.atr[1] * 3,
                     "MomentumScalper"))
    ELSE IF indicators.rsi[1] > 70 /\ indicators.ema8[1] < indicators.ema21[1]
    THEN Some(Signal(symbol, "SHORT", indicators.close,
                     indicators.close * LevelScale + IntTrunc(indicators.atr[1] * 3, 2),
                     indicators.close * LevelScale - indicators.atr[1] * 3,
                     "MomentumScalper"))
    ELSE None

\* TrendFollower.analyze: the EMAs in order with the close beyond them and the
\* MACD on the same side; the stop is 2% beyond EMA21 and the target 4 ATR
\* from the close.
TrendFollowerAnalyze(symbol, indicators) ==
    IF Falsy(indicators.ema8) \/ Falsy(indicators.ema21) \/ Falsy(indicators.ema50)
    THEN None
    ELSE IF Falsy(indicators.macd) \/ Falsy(indicators.macd_signal) \/ Falsy(indicators.atr)
    THEN None
    ELSE IF /\ indicators.ema8[1] > indicators.ema21[1]
            /\ indicators.ema21[1] > indicators.ema50[1]
            /\ indicators.close > indicators.ema8[1]
            /\ indicators.macd[1] > indicators.macd_signal[1]
    THEN Some(Signal(symbol, "LONG", indicators.close,
                     IntTrunc(indicators.ema21[1] * 98 * LevelScale, 100),
                     indicators.close * LevelScale + indicators.atr[1] * 4,
                     "TrendFollower"))
    ELSE IF /\ indicators.ema8[1] < indicators.ema21[1]
            /\ indicators.ema21[1] < indicators.ema50[1]
            /\ indicators.close < indicators.ema8[1]
            /\ indicators.macd[1] < indicators.macd_signal[1]
    THEN Some(Signal(symbol, "SHORT", indicators.close,
                     IntTrunc(indicators.ema21[1] * 102 * LevelScale, 100),
                     indicators.close * LevelScale - indicators.atr[1] * 4,
                     "TrendFollower"))
    ELSE None

\* strategy.analyze(symbol, market_data, indicators)
Analyze(strategy, symbol, indicators) ==
    IF strategy = "MomentumScalper"
    THEN MomentumScalperAnalyze(symbol, indicators)
    ELSE TrendFollowerAnalyze(symbol, indicators)

position_sizing_method == "kelly_criterion"

\* The position info _execute_signal stores; has_order_id says whether the
\* dict carries 'order_id' (the live branch).
PositionInfo(signal, position_size, has_order_id) ==
    [quantity |-> IF signal.direction = "LONG" THEN position_size ELSE -position_size,
     entry_price |-> signal.entry_price,
     stop_loss |-> signal.stop_loss,
     take_profit |-> signal.take_profit,
     strategy |-> signal.strategy_name,
     has_order_id |-> has_order_id]

\* The loop test without the stop event.
LoopRuns_IgnoresStopEvent == running

\* while self.running and not self.stop_event.is_set()
LoopRuns == running /\ ~stop_event

scanFrame == <<risk_config, now, trailing_stops, consecutive_losses, call, trading_mode, stream_symbols, running, stop_event, total_pnl,
               mon_pc, mon_positions, mon_local, close_local, main_local>>

\* Mutant of StartThreads: start() clears the stop event.
StartThreads_ClearsStopEvent ==
    /\ ~running
    /\ running' = TRUE
    /\ stop_event' = FALSE
    /\ IF scan_pc = "none"
       THEN scan_pc' = "top" /\ mon_pc' = "top"
       ELSE UNCHANGED <<scan_pc, mon_pc>>
    /\ UNCHANGED <<riskVars, trading_mode, stream_symbols, active_positions, total_pnl, orders,
                   scan_local, mon_positions, mon_local, close_local,
                   entries, recorded_pnl, recorded_trades>>

\* start() on an engine that is not running: the two threads are created by
\* the first start; after stop() the stop event stays set, and the threads of a
\* later start leave their loops at the first test without a step.
StartThreads ==
    /\ ~running
    /\ running' = TRUE
    /\ IF scan_pc = "none"
       THEN scan_pc' = "top" /\ mon_pc' = "top"
       ELSE UNCHANGED <<scan_pc, mon_pc>>
    /\ UNCHANGED <<riskVars, trading_mode, stream_symbols, stop_event, active_positions, total_pnl, orders,
                   scan_local, mon_positions, mon_local, close_local,
                   entries, recorded_pnl, recorded_trades>>

\* stop() on a running engine: the flag, the stop event, and the joins with
\* their timeout, after which stop() returns.
StopThreads ==
    /\ running
    /\ running' = FALSE
    /\ stop_event' = TRUE
    /\ UNCHANGED <<riskVars, trading_mode, stream_symbols, active_positions, total_pnl, orders,
                   scan_pc, scan_local, mon_pc, mon_positions, mon_local, close_local,
                   entries, recorded_pnl, recorded_trades>>

\* start()
Start == StartThreads /\ UNCHANGED <<call, main_local>>

\* stop()
Stop == StopThreads /\ UNCHANGED <<call, main_local>>

\* A loop-level error that ends the loop.
ScanCycleFailed_EndsLoop == scan_pc' = "done" /\ scan_local' = NoScanLocal

\* except Exception in _market_monitor_loop: the cycle is abandoned, the
\* error is logged and the loop sleeps 30 s before the next loop test.
ScanCycleFailed == scan_pc' = "backoff" /\ scan_local' = NoScanLocal

\* except Exception in _position_monitor_loop: the cycle is abandoned with
\* the positions not yet visited, and the loop sleeps 10 s before the next
\* loop test.
MonitorCycleFailed == mon_pc' = "backoff" /\ mon_positions' = << >>

\* _market_monitor_loop, the loop test and get_account_info(); a failed call is
\* caught at the loop level and the cycle starts again after the sleep.
ScanLoopTop ==
    /\ scan_pc \in {"top", "backoff"}
    /\ IF ~LoopRuns
       THEN scan_pc' = "done" /\ scan_local' = NoScanLocal
       ELSE \/ ScanCycleFailed
            \/ \E av \in EngineAccountValues :
                  /\ scan_pc' = "can_trade"
                  /\ scan_local' = [NoScanLocal EXCEPT !.account_value = av]
    /\ UNCHANGED <<scanFrame, daily_pnl, daily_trades, daily_reset_time, active_positions,
                   orders, entries, recorded_pnl, recorded_trades>>

\* The end of can_trade without the 'if not can_trade' of the loop.
ScanLimits_ScansWhenRefused ==
    /\ scan_pc' = "symbol"
    /\ scan_local' = [scan_local EXCEPT !.today = 0, !.idx = 1,
           !.can_trade = CanTradeCheck(daily_pnl, daily_trades,
                                       scan_local.account_value).allowed]

\* The end of can_trade: the loss test and the trade-count test.  A refusal
\* sleeps and starts the cycle again, the local can_trade staying False until
\* the next call; otherwise the symbols to scan are taken.
ScanLimits ==
    IF CanTradeCheck(daily_pnl, daily_trades, scan_local.account_value).allowed
    THEN /\ scan_pc' = "symbol"
         /\ scan_local' = [scan_local EXCEPT !.today = 0, !.idx = 1]
    ELSE /\ scan_pc' = "top"
         /\ scan_local' = [NoScanLocal EXCEPT !.can_trade = FALSE]

\* can_trade -> reset_daily_stats: now = datetime.now() and the date test.  On
\* a later date self.daily_pnl = 0.0 is written; otherwise can_trade goes on
\* to its tests.
ScanCanTrade ==
    /\ scan_pc = "can_trade"
    /\ IF ResetDailyStats(now, daily_pnl, daily_trades, daily_reset_time).boundary
              # daily_reset_time
       THEN /\ daily_pnl' = 0
            /\ recorded_pnl' = 0
            /\ scan_local' = [scan_local EXCEPT !.today = now]
            /\ scan_pc' = "reset_trades"
       ELSE /\ ScanLimits
            /\ UNCHANGED <<daily_pnl, recorded_pnl>>
    /\ UNCHANGED <<scanFrame, daily_trades, daily_reset_time, active_positions,
                   orders, entries, recorded_trades>>

\* reset_daily_stats: self.daily_trades = 0 and the new boundary.
ScanResetTrades ==
    /\ scan_pc = "reset_trades"
    /\ daily_trades' = 0
    /\ recorded_trades' = 0
    /\ daily_reset_time' = scan_local.today
    /\ scan_pc' = "limits"
    /\ UNCHANGED <<scanFrame, scan_local, daily_pnl, active_positions,
                   orders, entries, recorded_pnl>>

\* can_trade after a reset: the two tests.
ScanLimitsAfterReset ==
    /\ scan_pc = "limits"
    /\ ScanLimits
    /\ UNCHANGED <<scanFrame, daily_pnl, daily_trades, daily_reset_time, active_positions,
                   orders, entries, recorded_pnl, recorded_trades>>

\* The scan goes on to the symbol at index idx, or, past the last symbol,
\* sleeps and starts the next cycle.
ScanGoto(idx) ==
    IF idx > Len(stream_symbols)
    THEN scan_pc' = "top" /\ scan_local' = NoScanLocal
    ELSE /\ scan_pc' = "symbol"
         /\ scan_local' = [scan_local EXCEPT !.idx = idx, !.strat = 0, !.indicators = None]

\* A failed fetch that reaches the handler of the whole pass.
ScanFetchFailed_AbortsPass(idx) == scan_pc' = "backoff" /\ scan_local' = NoScanLocal

\* _get_market_data or _get_price_history of the symbol at index idx returns
\* nothing (a failed quote, a failed or empty history): the failure is caught
\* there, and the scan continues with the next symbol.  scan_local.failed
\* keeps the symbols of the pass whose fetch failed.
ScanFetchFailed(idx) ==
    IF idx + 1 > Len(stream_symbols)
    THEN scan_pc' = "top" /\ scan_local' = NoScanLocal
    ELSE /\ scan_pc' = "symbol"
         /\ scan_local' = [scan_local EXCEPT !.idx = idx + 1, !.strat = 0,
                                             !.indicators = None,
                                             !.failed = @ \cup {stream_symbols[idx]}]

\* for symbol in symbols_to_scan: the ledger test, the quote and the history.
\* A symbol in the ledger, a failed quote and a failed or empty history all
\* continue with the next symbol.
ScanSymbol ==
    /\ scan_pc = "symbol"
    /\ IF stream_symbols[scan_local.idx] \in DOMAIN active_positions
       THEN ScanGoto(scan_local.idx + 1)
       ELSE \/ ScanFetchFailed(scan_local.idx)
            \/ \E indicators \in IndicatorSets :
                  /\ scan_pc' = "strategy"
                  /\ scan_local' = [scan_local EXCEPT !.strat = 1,
                                                      !.indicators = Some(indicators)]
    /\ UNCHANGED <<scanFrame, daily_pnl, daily_trades, daily_reset_time, active_positions,
                   orders, entries, recorded_pnl, recorded_trades>>

\* _execute_signal that stores the position before the order is accepted.
ExecuteSignal_StoresBeforeOrder(signal, account_value, positions, place_ok) ==
    LET position_size == CalculatePositionSize(position_sizing_method, signal.symbol, signal.entry_price,
                             signal.stop_loss, account_value,
                             CurrentExposure(positions), None)
    IN  IF position_size = 0
        THEN UNCHANGED <<active_positions, orders, entries>>
        ELSE IF trading_mode = "paper"
             THEN /\ active_positions' = DictSet(active_positions, signal.symbol,
                                                 PositionInfo(signal, position_size, FALSE))
                  /\ entries' = entries + 1
                  /\ UNCHANGED orders
             ELSE IF place_ok
                  THEN /\ orders' = orders + 1
                       /\ active_positions' = DictSet(active_positions, signal.symbol,
                                                      PositionInfo(signal, position_size, TRUE))
                       /\ entries' = entries + 1
                  ELSE /\ active_positions' = DictSet(active_positions, signal.symbol,
                                                      PositionInfo(signal, position_size, TRUE))
                       /\ entries' = entries + 1
                       /\ UNCHANGED orders

\* _execute_signal without the test of the size.
ExecuteSignal_NoSizeTest(signal, account_value, positions, place_ok) ==
    LET position_size == CalculatePositionSize(position_sizing_method, signal.symbol, signal.entry_price,
                             signal.stop_loss, account_value,
                             CurrentExposure(positions), None)
    IN  IF FALSE
        THEN UNCHANGED <<active_positions, orders, entries>>
        ELSE IF trading_mode = "paper"
             THEN /\ active_positions' = DictSet(active_positions, signal.symbol,
                                                 PositionInfo(signal, position_size, FALSE))
                  /\ entries' = entries + 1
                  /\ UNCHANGED orders
             ELSE IF place_ok
                  THEN /\ orders' = orders + 1
                       /\ active_positions' = DictSet(active_positions, signal.symbol,
                                                      PositionInfo(signal, position_size, TRUE))
                       /\ entries' = entries + 1
                  ELSE UNCHANGED <<active_positions, orders, entries>>

\* _execute_signal once get_positions() has answered: the size, then the paper
\* record or the bracket order and the live record.  A size of 0 returns.
\* place_ok says whether place_order returns or raises; the exception is
\* caught in _execute_signal, before the position is stored.  The position
\* info is stored by plain assignment.
ExecuteSignal(signal, account_value, positions, place_ok) ==
    LET position_size == CalculatePositionSize(position_sizing_method, signal.symbol, signal.entry_price,
                             signal.stop_loss, account_value,
                             CurrentExposure(positions), None)
    IN  IF position_size = 0
        THEN UNCHANGED <<active_positions, orders, entries>>
        ELSE IF trading_mode = "paper"
             THEN /\ active_positions' = DictSet(active_positions, signal.symbol,
                                                 PositionInfo(signal, position_size, FALSE))
                  /\ entries' = entries + 1
                  /\ UNCHANGED orders
             ELSE IF place_ok
                  THEN /\ orders' = orders + 1
                       /\ active_positions' = DictSet(active_positions, signal.symbol,
                                                      PositionInfo(signal, position_size, TRUE))
                       /\ entries' = entries + 1
                  ELSE UNCHANGED <<active_positions, orders, entries>>

\* liquidationValue as the scan loop reads it; 0 is an account response
\* without the field.
ExecAccountValues == {0, 10000}

\* The signals the strategies return on the indicator sets.
Signals ==
    {Analyze(st, s, ind)[1] :
        <<st, s, ind>> \in {x \in {"MomentumScalper", "TrendFollower"} \X Symbols \X IndicatorSets :
                              Analyze(x[1], x[2], x[3]) # None}}

\* A call of _execute_signal(signal, account_value) on its own: get_positions
\* raises or answers, and place_order raises or returns.  call keeps the
\* arguments, the size that was computed, which call failed, and the ledger
\* and the order count before the call.
ExecuteSignalCall(signal, account_value, positions, positions_ok, place_ok) ==
    /\ entries < MaxEntries
    /\ IF positions_ok
       THEN ExecuteSignal(signal, account_value, positions, place_ok)
       ELSE UNCHANGED <<active_positions, orders, entries>>
    /\ call' = [op |-> "execute_signal", symbol |-> signal.symbol,
                account_value |-> account_value,
                position_size |->
                    IF positions_ok
                    THEN CalculatePositionSize(position_sizing_method, signal.symbol,
                             signal.entry_price, signal.stop_loss, account_value,
                             CurrentExposure(positions), None)
                    ELSE 0,
                failed |-> IF ~positions_ok THEN "get_positions"
                           ELSE IF trading_mode # "paper" /\ ~place_ok THEN "place_order"
                           ELSE "none",
                pre_positions |-> active_positions, pre_orders |-> orders]
    /\ UNCHANGED <<riskVars, trading_mode, stream_symbols, running, stop_event, total_pnl,
                   scan_pc, scan_local, mon_pc, mon_positions, mon_local, close_local,
                   main_local, recorded_pnl, recorded_trades>>

NextExecute ==
    \E signal \in Signals, account_value \in ExecAccountValues, positions \in BrokerPositionLists, positions_ok \in BOOLEAN, place_ok \in BOOLEAN :
        ExecuteSignalCall(signal, account_value, positions, positions_ok, place_ok)

\* The ledger under any sequence of _execute_signal calls.
SpecExecute == Init /\ [][NextExecute]_vars

\* The first symbols of the fallback watchlist, for the exposure of a ledger
\* of several positions.
ExposureSymbols == {"SPY", "QQQ", "IWM", "AAPL", "MSFT", "GOOGL"}

MaxExposureEntries == 6

\* The momentum signals on the symbols of the watchlist.
ExposureSignals ==
    {Analyze("MomentumScalper", s, ind)[1] :
        <<s, ind>> \in {x \in ExposureSymbols \X IndicatorSets :
                          Analyze("MomentumScalper", x[1], x[2]) # None}}

\* sum(abs(quantity) * entry_price) over the positions of the ledger.
RECURSIVE LedgerExposure(_)
LedgerExposure(positions) ==
    IF DOMAIN positions = {}
    THEN 0
    ELSE LET s == CHOOSE x \in DOMAIN positions : TRUE
         IN  Abs(positions[s].quantity) * positions[s].entry_price
                 + LedgerExposure([x \in DOMAIN positions \ {s} |-> positions[x]])

\* A call of _execute_signal(signal, account_value) at a constant account
\* value, with get_positions() answering what the brokerage account holds.
EnterCall(signal, account_value, positions, place_ok) ==
    /\ entries < MaxExposureEntries
    /\ ExecuteSignal(signal, account_value, positions, place_ok)
    /\ UNCHANGED <<call, riskVars, trading_mode, stream_symbols, running, stop_event, total_pnl,
                   scan_pc, scan_local, mon_pc, mon_positions, mon_local, close_local,
                   main_local, recorded_pnl, recorded_trades>>

NextExposure ==
    \E signal \in ExposureSignals, account_value \in EngineAccountValues, positions \in BrokerPositionLists, place_ok \in BOOLEAN :
        EnterCall(signal, account_value, positions, place_ok)

\* The ledger under entries on the symbols of the watchlist.
SpecExposure == Init /\ [][NextExposure]_vars

\* for strategy in self.strategies: calculate_indicators on the price history
\* of the symbol, analyze and, on a signal, _execute_signal.  No signal and a
\* failed get_positions() in _execute_signal change nothing.  Every outcome
\* goes on to the next strategy and, after the last one, to the next symbol.
ScanStrategy ==
    /\ scan_pc = "strategy"
    /\ IF scan_local.strat < Len(Strategies)
       THEN scan_pc' = "strategy" /\ scan_local' = [scan_local EXCEPT !.strat = @ + 1]
       ELSE ScanGoto(scan_local.idx + 1)
    /\ LET signal == Analyze(Strategies[scan_local.strat], stream_symbols[scan_local.idx],
                             scan_local.indicators[1])
       IN  IF signal = None
           THEN UNCHANGED <<active_positions, orders, entries>>
           ELSE \/ UNCHANGED <<active_positions, orders, entries>>
                \/ /\ entries < MaxEntries
                   /\ \E bp \in BrokerPositionLists, place_ok \in BOOLEAN :
                         ExecuteSignal(signal[1], scan_local.account_value, bp, place_ok)
    /\ UNCHANGED <<scanFrame, daily_pnl, daily_trades, daily_reset_time,
                   recorded_pnl, recorded_trades>>

monFrame == <<risk_config, now, consecutive_losses, daily_reset_time, call, trading_mode, stream_symbols, running, stop_event,
              scan_pc, scan_local, main_local, entries>>

\* The stop-loss breach test of the monitor loop.
StopLossHit(pos_info, is_long, current_price) ==
    /\ pos_info.stop_loss # 0
    /\ \/ is_long /\ current_price * LevelScale <= pos_info.stop_loss
       \/ ~is_long /\ current_price * LevelScale >= pos_info.stop_loss

\* The take-profit breach test of the monitor loop.
TakeProfitHit(pos_info, is_long, current_price) ==
    /\ pos_info.take_profit # 0
    /\ \/ is_long /\ current_price * LevelScale >= pos_info.take_profit
       \/ ~is_long /\ current_price * LevelScale <= pos_info.take_profit

\* The body of the monitor loop for one ledger position, from a stage on:
\* "stop_loss", then "take_profit", then "trailing".  No position info carries
\* 'stop_order_id', so the stop-loss breach is tested.  A breach calls
\* _close_position, which comes back to the stage after it; both tests use the
\* position info read before any close.  The trailing stop is updated whenever
\* trailing stops are enabled, with the direction of the broker position.
MonitorBody(stage, local) ==
    IF stage = "stop_loss" /\ StopLossHit(local.pos_info, local.is_long, local.current_price)
    THEN /\ mon_pc' = "close"
         /\ mon_local' = local
         /\ close_local' = [reason |-> "Stop Loss Hit", ret |-> "take_profit"]
         /\ UNCHANGED trailing_stops
    ELSE IF stage \in {"stop_loss", "take_profit"}
               /\ TakeProfitHit(local.pos_info, local.is_long, local.current_price)
         THEN /\ mon_pc' = "close"
              /\ mon_local' = local
              /\ close_local' = [reason |-> "Take Profit Hit", ret |-> "trailing"]
              /\ UNCHANGED trailing_stops
         ELSE /\ mon_pc' = "position"
              /\ mon_local' = NoMonLocal
              /\ close_local' = NoCloseLocal
              /\ trailing_stops' =
                     IF risk_config.trailing_stop_enabled
                     THEN UpdateTrailingStopResult(trailing_stops,
                              risk_config.trailing_stop_enabled, local.symbol,
                              local.current_price, local.pos_info.entry_price,
                              local.is_long).stops
                     ELSE trailing_stops

\* _position_monitor_loop, the loop test and get_positions(); a failed call is
\* caught at the loop level and the cycle starts again after the sleep.
MonitorLoopTop ==
    /\ mon_pc \in {"top", "backoff"}
    /\ IF ~LoopRuns
       THEN mon_pc' = "done" /\ UNCHANGED mon_positions
       ELSE \/ MonitorCycleFailed
            \/ \E bp \in BrokerPositionLists :
                  mon_pc' = "position" /\ mon_positions' = bp
    /\ UNCHANGED <<monFrame, total_pnl, daily_pnl, daily_trades, trailing_stops, active_positions,
                   orders, mon_local, close_local, recorded_pnl, recorded_trades>>

\* for position in positions: get_quote(symbol), then the ledger lookup and the
\* body.  A failed quote raises out of the for loop to the loop-level handler.
\* A broker position whose symbol is not in the ledger is passed over.  After
\* the last position the loop sleeps and starts the next cycle.
MonitorPosition ==
    /\ mon_pc = "position"
    /\ IF mon_positions = << >>
       THEN mon_pc' = "top" /\ UNCHANGED <<mon_positions, mon_local, close_local, trailing_stops>>
       ELSE LET position == Head(mon_positions)
            IN  \/ /\ MonitorCycleFailed
                   /\ UNCHANGED <<mon_local, close_local, trailing_stops>>
                \/ \E current_price \in QuotePrices :
                      /\ mon_positions' = Tail(mon_positions)
                      /\ IF position.symbol \in DOMAIN active_positions
                         THEN MonitorBody("stop_loss",
                                  [symbol |-> position.symbol,
                                   current_price |-> current_price,
                                   pos_info |-> active_positions[position.symbol],
                                   is_long |-> position.quantity > 0])
                         ELSE /\ mon_pc' = "position"
                              /\ UNCHANGED <<mon_local, close_local, trailing_stops>>
    /\ UNCHANGED <<monFrame, total_pnl, daily_pnl, daily_trades, active_positions,
                   orders, recorded_pnl, recorded_trades>>

\* realized PnL of _close_position (paper branch)
RealizedPnl(pos_info, exit_price) ==
    LET quantity == Abs(pos_info.quantity)
    IN  IF pos_info.quantity > 0
        THEN quantity * (exit_price - pos_info.entry_price)
        ELSE quantity * (pos_info.entry_price - exit_price)

\* A failed close that drops the position all the same.
CloseFailed_DropsPosition ==
    /\ MonitorBody(close_local.ret, mon_local)
    /\ active_positions' = [s \in DOMAIN active_positions \ {mon_local.symbol} |->
                               active_positions[s]]
    /\ UNCHANGED orders

\* _close_position when get_quote or place_order raises: the handler of
\* _close_position logs, the del is not reached, and the monitor loop goes on
\* after the call.
CloseFailed ==
    /\ MonitorBody(close_local.ret, mon_local)
    /\ UNCHANGED <<orders, active_positions>>

\* _close_position up to the exit: the ledger lookup and get_quote(symbol); in
\* paper mode the PnL, in live mode the market order.  A symbol not in the
\* ledger returns; a failed quote or a refused order is caught and returns.
\* close_local.recorded counts the record_trade calls of this close.
CloseBegin ==
    /\ mon_pc = "close"
    /\ IF mon_local.symbol \notin DOMAIN active_positions
       THEN MonitorBody(close_local.ret, mon_local) /\ UNCHANGED <<orders, active_positions>>
       ELSE LET pos_info == active_positions[mon_local.symbol]
            IN  \/ CloseFailed
                \/ \E exit_price \in QuotePrices :
                      IF trading_mode = "paper"
                      THEN /\ mon_pc' = "record_read_pnl"
                           /\ close_local' = [reason |-> close_local.reason,
                                              ret |-> close_local.ret,
                                              exit_price |-> exit_price,
                                              recorded |-> 0,
                                              pnl |-> RealizedPnl(pos_info, exit_price),
                                              tmp |-> 0]
                           /\ UNCHANGED <<orders, active_positions, mon_local, trailing_stops>>
                      ELSE /\ mon_pc' = "close_del"
                           /\ orders' = orders + 1
                           /\ close_local' = [reason |-> close_local.reason,
                                              ret |-> close_local.ret,
                                              exit_price |-> exit_price,
                                              recorded |-> 0]
                           /\ UNCHANGED <<active_positions, mon_local, trailing_stops>>
    /\ UNCHANGED <<monFrame, total_pnl, daily_pnl, daily_trades,
                   mon_positions, recorded_pnl, recorded_trades>>

\* record_trade, self.daily_pnl += pnl: the read.
RecordReadPnl ==
    /\ mon_pc = "record_read_pnl"
    /\ close_local' = [close_local EXCEPT !.tmp = daily_pnl]
    /\ mon_pc' = "record_write_pnl"
    /\ UNCHANGED <<monFrame, total_pnl, daily_pnl, daily_trades, trailing_stops, active_positions,
                   orders, mon_positions, mon_local, recorded_pnl, recorded_trades>>

\* record_trade, self.daily_pnl += pnl: the write.
RecordWritePnl ==
    /\ mon_pc = "record_write_pnl"
    /\ daily_pnl' = close_local.tmp + close_local.pnl
    /\ recorded_pnl' = recorded_pnl + close_local.pnl
    /\ close_local' = [close_local EXCEPT !.tmp = 0]
    /\ mon_pc' = "record_read_trades"
    /\ UNCHANGED <<monFrame, total_pnl, daily_trades, trailing_stops, active_positions,
                   orders, mon_positions, mon_local, recorded_trades>>

\* record_trade, self.daily_trades += 1: the read.
RecordReadTrades ==
    /\ mon_pc = "record_read_trades"
    /\ close_local' = [close_local EXCEPT !.tmp = daily_trades]
    /\ mon_pc' = "record_write_trades"
    /\ UNCHANGED <<monFrame, total_pnl, daily_pnl, daily_trades, trailing_stops, active_positions,
                   orders, mon_positions, mon_local, recorded_pnl, recorded_trades>>

\* record_trade, self.daily_trades += 1: the write.
RecordWriteTrades ==
    /\ mon_pc = "record_write_trades"
    /\ daily_trades' = close_local.tmp + 1
    /\ recorded_trades' = recorded_trades + 1
    /\ close_local' = [close_local EXCEPT !.tmp = 0, !.recorded = @ + 1]
    /\ mon_pc' = "close_del"
    /\ UNCHANGED <<monFrame, total_pnl, daily_pnl, trailing_stops, active_positions,
                   orders, mon_positions, mon_local, recorded_pnl>>

\* self.total_pnl += pnl in paper mode (the engine's own counter, written by
\* this thread alone), del self.active_positions[symbol] and the return to the
\* monitor loop; a missing key raises KeyError, which _close_position catches.
CloseDelete ==
    /\ mon_pc = "close_del"
    /\ active_positions' = [s \in DOMAIN active_positions \ {mon_local.symbol} |->
                               active_positions[s]]
    /\ total_pnl' = IF trading_mode = "paper" THEN total_pnl + close_local.pnl ELSE total_pnl
    /\ MonitorBody(close_local.ret, mon_local)
    /\ UNCHANGED <<monFrame, daily_pnl, daily_trades,
                   orders, mon_positions, recorded_pnl, recorded_trades>>

\* Midnight passes while the engine runs.
EngineTick == now < MaxEngineDay /\ Tick

Next ==
    \/ Start
    \/ Stop
    \/ EngineTick
    \/ ScanLoopTop
    \/ ScanCanTrade
    \/ ScanResetTrades
    \/ ScanLimitsAfterReset
    \/ ScanSymbol
    \/ ScanStrategy
    \/ MonitorLoopTop
    \/ MonitorPosition
    \/ CloseBegin
    \/ RecordReadPnl
    \/ RecordWritePnl
    \/ RecordReadTrades
    \/ RecordWriteTrades
    \/ CloseDelete

\* The trading engine: the main thread, the two loops and the clock.
Spec == Init /\ [][Next]_vars

\* The engine with two symbols on its watchlist and trailing stops switched
\* off.
InitWide == InitWatching({c \in DefaultRiskConfigs : ~c.trailing_stop_enabled}, WideScanList)

SpecWide == InitWide /\ [][Next]_vars

\* The engine started with --mode paper or --mode backtest, trailing stops
\* switched off.
InitBacktest ==
    InitModes({c \in DefaultRiskConfigs : ~c.trailing_stop_enabled}, ScanList,
              {"paper", "backtest"})

SpecBacktest == InitBacktest /\ [][Next]_vars

\* The steps of the _market_monitor_loop thread.
ScanThread ==
    \/ ScanLoopTop
    \/ ScanCanTrade
    \/ ScanResetTrades
    \/ ScanLimitsAfterReset
    \/ ScanSymbol
    \/ ScanStrategy

\* The steps of the _position_monitor_loop thread.
MonitorThread ==
    \/ MonitorLoopTop
    \/ MonitorPosition
    \/ CloseBegin
    \/ RecordReadPnl
    \/ RecordWritePnl
    \/ RecordReadTrades
    \/ RecordWriteTrades
    \/ CloseDelete

\* The engine in paper mode or live mode with trailing stops switched off; the
\* trailing-stop update is no step of its own and adds no program position to
\* either loop.
InitLive == InitWatching({c \in DefaultRiskConfigs : ~c.trailing_stop_enabled}, ScanList)

\* The trading engine when every network call and every sleep returns and the
\* scheduler lets each thread run: a thread that can take a step takes one.
SpecLive == InitLive /\ [][Next]_vars /\ WF_vars(ScanThread) /\ WF_vars(MonitorThread)

(***************************************************************************)
(* The entry point (main.py) and the status query.                         *)
(***************************************************************************)
\* The configurations main() may load: the three credentials set or not, and
\* the two limits that validate() tests, in basis points.
MainConfigs ==
    [app_key : BOOLEAN, app_secret : BOOLEAN, account_number : BOOLEAN,
     max_position_size_pct : {1000, 2500, 2600},
     max_total_exposure_pct : {5000, PctScale, PctScale + 100}]

\* Mutant of Validate: the total exposure is not tested.
Validate_NoExposureTest(config) ==
    /\ config.app_key
    /\ config.app_secret
    /\ config.account_number
    /\ ~(config.max_position_size_pct > 2500)

\* Config.validate: no error was collected.
Validate(config) ==
    /\ config.app_key
    /\ config.app_secret
    /\ config.account_number
    /\ ~(config.max_position_size_pct > 2500)
    /\ ~(config.max_total_exposure_pct > PctScale)

\* What get_account_info() gives the status query: None when the call raises.
AccountInfos == {None} \cup {Some(av) : av \in EngineAccountValues}

\* get_status(): the account call comes first and is not guarded, so None
\* stands for the exception that leaves get_status.
GetStatus(account_info) ==
    IF account_info = None
    THEN None
    ELSE Some([running |-> running, account_value |-> account_info[1],
               active_positions |-> Cardinality(DOMAIN active_positions),
               daily_pnl |-> daily_pnl, daily_trades |-> daily_trades,
               total_pnl |-> total_pnl])

mainFrame == <<riskVars, trading_mode, stream_symbols, stop_event, active_positions, total_pnl, orders,
               scan_local, mon_positions, mon_local, close_local,
               entries, recorded_pnl, recorded_trades>>

\* main() up to the start of the engine.  A configuration that fails
\* validate() exits with 1 before the engine is built; so does an engine whose
\* constructor raises (init_ok false).  --auth and --status exit after their
\* work; otherwise engine.start() is called.
MainLaunch(config, init_ok, args_auth, args_status, account_info) ==
    /\ main_local.pc = "none"
    /\ IF ~Validate(config) \/ ~init_ok
       THEN /\ main_local' = [pc |-> "exited", config |-> config, exit_code |-> 1]
            /\ UNCHANGED <<call, running, scan_pc, mon_pc>>
            /\ UNCHANGED mainFrame
       ELSE IF args_auth
       THEN /\ \E code \in {0, 1} :
                  main_local' = [pc |-> "exited", config |-> config, exit_code |-> code]
            /\ UNCHANGED <<call, running, scan_pc, mon_pc>>
            /\ UNCHANGED mainFrame
       ELSE IF args_status
       THEN /\ call' = [op |-> "get_status", ret |-> GetStatus(account_info)]
            /\ main_local' = [pc |-> "exited", config |-> config,
                              exit_code |-> IF account_info = None THEN 1 ELSE 0]
            /\ UNCHANGED <<running, scan_pc, mon_pc>>
            /\ UNCHANGED mainFrame
       ELSE /\ StartThreads
            /\ main_local' = [pc |-> "running", config |-> config, exit_code |-> 0]
            /\ UNCHANGED call

\* The main loop: every 60 seconds engine.get_status().  An exception leaves
\* the loop through the finally clause, which stops the engine, to the handler
\* that exits with 1.
MainStatus(account_info) ==
    /\ main_local.pc = "running"
    /\ call' = [op |-> "get_status", ret |-> GetStatus(account_info)]
    /\ IF account_info = None
       THEN /\ StopThreads
            /\ main_local' = [main_local EXCEPT !.pc = "exited", !.exit_code = 1]
       ELSE /\ UNCHANGED <<running, scan_pc, mon_pc, main_local>>
            /\ UNCHANGED mainFrame

\* KeyboardInterrupt in the main loop: engine.stop() and the end of main().
MainInterrupt ==
    /\ main_local.pc = "running"
    /\ StopThreads
    /\ main_local' = [main_local EXCEPT !.pc = "exited"]
    /\ UNCHANGED call

NextMain ==
    \/ \E config \in MainConfigs, init_ok \in BOOLEAN, args_auth \in BOOLEAN,
          args_status \in BOOLEAN, account_info \in AccountInfos :
          MainLaunch(config, init_ok, args_auth, args_status, account_info)
    \/ \E account_info \in AccountInfos : MainStatus(account_info)
    \/ MainInterrupt

\* One run of main(), the loops of the engine left aside.
SpecMain == Init /\ [][NextMain]_vars

(***************************************************************************)
(* Order payloads (core/order_builder.py).  A payload is a dict: a         *)
(* function from its keys.  The prices of a payload are in cents.          *)
(***************************************************************************)
\* round(price, 2) of a level given in units of 1 / LevelScale of a dollar,
\* in cents (no level of the model is a tie).
RoundCents(level) == (level * 100 + LevelScale \div 2) \div LevelScale

\* A dict without key k.
Without(d, k) == [x \in DOMAIN d \ {k} |-> d[x]]

\* One leg of orderLegCollection.
OrderLeg(instruction, quantity, symbol, asset_type) ==
    [instruction |-> instruction, quantity |-> quantity,
     instrument |-> [symbol |-> symbol, assetType |-> asset_type]]

\* build_equity_order that leaves assetType out of the instrument.
BuildEquityOrder_NoAssetType(symbol, quantity, instruction, order_type) ==
    [orderType |-> order_type, session |-> "NORMAL", duration |-> "DAY",
     orderStrategyType |-> "SINGLE",
     orderLegCollection |->
         <<[instruction |-> instruction, quantity |-> quantity,
            instrument |-> [symbol |-> symbol]]>>]

\* OrderBuilder.build_equity_order with the default duration and without
\* price or stop_price, as _close_position calls it.
BuildEquityOrder(symbol, quantity, instruction, order_type) ==
    [orderType |-> order_type, session |-> "NORMAL", duration |-> "DAY",
     orderStrategyType |-> "SINGLE",
     orderLegCollection |-> <<OrderLeg(instruction, quantity, symbol, "EQUITY")>>]

\* OrderBuilder.build_bracket_order for an equity, as _execute_signal calls
\* it: the entry at a limit, with a stop-loss child and a take-profit child.
BuildBracketOrder(symbol, quantity, entry_price, stop_loss_price, take_profit_price, is_long) ==
    LET entry_instruction == IF is_long THEN "BUY" ELSE "SELL_SHORT"
        exit_instruction  == IF is_long THEN "SELL" ELSE "BUY_TO_COVER"
    IN  [orderType |-> "LIMIT", session |-> "NORMAL", duration |-> "DAY",
         orderStrategyType |-> "TRIGGER",
         price |-> RoundCents(entry_price * LevelScale),
         orderLegCollection |-> <<OrderLeg(entry_instruction, quantity, symbol, "EQUITY")>>,
         childOrderStrategies |->
             <<[orderType |-> "STOP", session |-> "NORMAL",
                duration |-> "GOOD_TILL_CANCEL",
                stopPrice |-> RoundCents(stop_loss_price),
                orderStrategyType |-> "SINGLE",
                orderLegCollection |-> <<OrderLeg(exit_instruction, quantity, symbol, "EQUITY")>>],
               [orderType |-> "LIMIT", session |-> "NORMAL",
                duration |-> "GOOD_TILL_CANCEL",
                price |-> RoundCents(take_profit_price),
                orderStrategyType |-> "SINGLE",
                orderLegCollection |-> <<OrderLeg(exit_instruction, quantity, symbol, "EQUITY")>>]>>]

\* required_fields of validate_order, in the order of its tests.
RequiredFields == <<"orderType", "session", "duration", "orderStrategyType", "orderLegCollection">>

\* The test of one leg in validate_order: the message of the ValueError it
\* raises, or "OK".
ValidateLeg(leg) ==
    IF "instruction" \notin DOMAIN leg THEN "Order leg missing instruction"
    ELSE IF "quantity" \notin DOMAIN leg THEN "Order leg missing quantity"
    ELSE IF "instrument" \notin DOMAIN leg THEN "Order leg missing instrument"
    ELSE IF "symbol" \notin DOMAIN leg.instrument THEN "Order leg instrument missing symbol"
    ELSE IF "assetType" \notin DOMAIN leg.instrument THEN "Order leg instrument missing assetType"
    ELSE "OK"

\* OrderBuilder.validate_order: "OK" for the return of True, otherwise the
\* message of the first ValueError, in the order of the tests.
ValidateOrder(order) ==
    IF \E i \in 1..Len(RequiredFields) : RequiredFields[i] \notin DOMAIN order
    THEN LET missing == {i \in 1..Len(RequiredFields) : RequiredFields[i] \notin DOMAIN order}
         IN  "Missing required field: "
                 \o RequiredFields[CHOOSE i \in missing : \A j \in missing : i <= j]
    ELSE IF order.orderLegCollection = << >>
    THEN "orderLegCollection cannot be empty"
    ELSE LET legs == order.orderLegCollection
             bad  == {i \in 1..Len(legs) : ValidateLeg(legs[i]) # "OK"}
         IN  IF bad = {}
             THEN "OK"
             ELSE ValidateLeg(legs[CHOOSE i \in bad : \A j \in bad : i <= j])

\* The payloads of the model: quantities, and the levels of the signals.
OrderQuantities == {1, 20}

\* The ways a payload can fall short of the contract: a top-level field
\* missing, no leg, or a leg without one of its fields.
Damages ==
    {"orderType", "session", "duration", "orderStrategyType", "orderLegCollection",
     "no_legs", "instruction", "quantity", "instrument", "symbol", "assetType"}

\* The payload with one damage.
Damaged(order, damage) ==
    LET leg == order.orderLegCollection[1]
    IN  IF damage \in {"orderType", "session", "duration", "orderStrategyType", "orderLegCollection"}
        THEN Without(order, damage)
        ELSE IF damage = "no_legs"
        THEN [order EXCEPT !.orderLegCollection = << >>]
        ELSE IF damage \in {"instruction", "quantity", "instrument"}
        THEN [order EXCEPT !.orderLegCollection = <<Without(leg, damage)>>]
        ELSE [order EXCEPT !.orderLegCollection =
                  <<[leg EXCEPT !.instrument = Without(leg.instrument, damage)]>>]

ordersFrame == <<riskVars, engineVars>>

\* The bracket order _execute_signal builds for a signal and a size, and
\* what validate_order says of it.
BuildBracketOrderCall(signal, quantity) ==
    LET order == BuildBracketOrder(signal.symbol, quantity, signal.entry_price,
                                   signal.stop_loss, signal.take_profit,
                                   signal.direction = "LONG")
    IN  /\ call' = [op |-> "build_bracket_order", order |-> order,
                    damage |-> "none", valid |-> ValidateOrder(order)]
        /\ UNCHANGED ordersFrame

\* The market order _close_position builds for a position, and what
\* validate_order says of it.
BuildEquityOrderCall(symbol, quantity, is_long) ==
    LET order == BuildEquityOrder(symbol, quantity,
                                  IF is_long THEN "SELL" ELSE "BUY_TO_COVER", "MARKET")
    IN  /\ call' = [op |-> "build_equity_order", order |-> order,
                    damage |-> "none", valid |-> ValidateOrder(order)]
        /\ UNCHANGED ordersFrame

\* validate_order on the payload that was built last, with one damage.
ValidateDamagedCall(damage) ==
    /\ call.op \in {"build_bracket_order", "build_equity_order"}
    /\ LET order == Damaged(call.order, damage)
       IN  call' = [op |-> "validate_order", order |-> order,
                    damage |-> damage, valid |-> ValidateOrder(order)]
    /\ UNCHANGED ordersFrame

NextOrders ==
    \/ \E signal \in Signals, quantity \in OrderQuantities :
           BuildBracketOrderCall(signal, quantity)
    \/ \E symbol \in Symbols, quantity \in OrderQuantities, is_long \in BOOLEAN :
           BuildEquityOrderCall(symbol, quantity, is_long)
    \/ \E damage \in Damages : ValidateDamagedCall(damage)

\* The payloads of the two builders the engine uses, and validate_order.
SpecOrders == Init /\ [][NextOrders]_vars

(***************************************************************************)
(* Properties of the position ledger.                                      *)
(***************************************************************************)
\* C1: ledger exclusivity.  Of two entry attempts for the same symbol (two
\* strategies signalling it in one scan pass, or racing attempts) exactly one
\* Position results; the later attempt is rejected and the Position already
\* stored is not overwritten: a symbol that is in the ledger before and after
\* a step holds the same Position after it.
C1_LedgerExclusivity ==
    [][\A s \in Symbols :
          (s \in DOMAIN active_positions /\ s \in DOMAIN active_positions')
              => active_positions'[s] = active_positions[s]]_vars

(***************************************************************************)
(* Properties of the daily risk state.                                     *)
(***************************************************************************)
AfterCanTrade == call.op = "can_trade"

\* C2: can_trade(account_value) returns false if and only if the cumulative
\* daily PnL (after the lazy roll-over) is below -(account_value x
\* max_daily_loss_pct) or the daily trade count is at or above
\* max_daily_trades; in every other state it returns (true, "OK").
C2_CanTradeIff ==
    AfterCanTrade =>
        /\ (~call.allowed) <=>
               \/ daily_pnl * PctScale < -(call.account_value * max_daily_loss_pct)
               \/ daily_trades >= max_daily_trades
        /\ call.allowed => call.reason = "OK"

\* C2 witness: a call refused by the trade cap alone, the loss limit not being hit.
C2_Witness ==
    /\ AfterCanTrade
    /\ ~call.allowed
    /\ daily_trades >= max_daily_trades
    /\ daily_pnl * PctScale >= -(call.account_value * max_daily_loss_pct)

\* C3 as stated: with account_value = 10,000, max_daily_loss_pct = 0.05 and the
\* trade count below its cap, can_trade returns false if and only if the daily
\* PnL is <= -500, so that a PnL of exactly -500 is refused.
C3_LossLimitInclusive ==
    (AfterCanTrade /\ call.account_value = 10000 /\ daily_trades < max_daily_trades) =>
        ((~call.allowed) <=> daily_pnl <= -500)

\* C3 amended: with account_value = 10,000, max_daily_loss_pct = 0.05 and the
\* trade count below its cap, can_trade returns false if and only if the daily
\* PnL is < -500; a PnL of exactly -500 is allowed with reason "OK".
C3_LossLimitStrict ==
    (AfterCanTrade /\ call.account_value = 10000 /\ daily_trades < max_daily_trades) =>
        /\ (~call.allowed) <=> daily_pnl < -500
        /\ call.allowed => call.reason = "OK"

\* C3 witness: a call at a daily PnL of exactly -500, which is allowed.
C3_Witness ==
    /\ AfterCanTrade
    /\ call.account_value = 10000
    /\ daily_trades < max_daily_trades
    /\ daily_pnl = -500
    /\ call.allowed

\* C4: a can_trade call on a date later than the stored boundary resets the
\* daily PnL and trade count to zero and advances the boundary to that date;
\* a call on a date not later than the boundary changes none of the three;
\* after any call the boundary is not earlier than the date of the call, so a
\* further call on the same date does not reset again.
C4_DailyResetOncePerDay ==
    AfterCanTrade =>
        /\ call.today > call.pre_boundary =>
               /\ daily_pnl = 0
               /\ daily_trades = 0
               /\ daily_reset_time = call.today
        /\ call.today <= call.pre_boundary =>
               /\ daily_pnl = call.pre_pnl
               /\ daily_trades = call.pre_trades
               /\ daily_reset_time = call.pre_boundary
        /\ daily_reset_time >= call.today

\* C4 witness: a call that crossed a day boundary with trades on record.
C4_Witness ==
    /\ AfterCanTrade
    /\ call.today > call.pre_boundary
    /\ call.pre_pnl # 0
    /\ call.pre_trades > 0
    /\ daily_pnl = 0
    /\ daily_trades = 0

\* C5: record_trade(pnl) is atomic with respect to the scan loop's
\* can_trade and daily reset: no recorded trade is lost and no reset is undone
\* by a record_trade that read the counters before it, so the daily PnL is the
\* sum of the PnLs recorded since the last reset and the trade count is their
\* number.
C5_RecordTradeAtomic ==
    /\ daily_pnl = recorded_pnl
    /\ daily_trades = recorded_trades

(***************************************************************************)
(* Properties of the trailing stop.                                        *)
(***************************************************************************)
AfterTrailing == call.op = "update_trailing_stop"

\* The unrealized profit ratio in the position's direction is at least the
\* activation percentage.
TrailActivated ==
    IF call.is_long
    THEN (call.current_price - call.entry_price) * PctScale
             >= trailing_stop_activation_pct * call.entry_price
    ELSE (call.entry_price - call.current_price) * PctScale
             >= trailing_stop_activation_pct * call.entry_price

\* current_price -/+ current_price x trail_pct, scaled by PctScale.
TrailCandidate ==
    IF call.is_long
    THEN call.current_price * (PctScale - trailing_stop_distance_pct)
    ELSE call.current_price * (PctScale + trailing_stop_distance_pct)

HadStop == call.symbol \in DOMAIN call.pre_stops

HasStop == call.symbol \in DOMAIN trailing_stops

TrailPrior == call.pre_stops[call.symbol]

TrailStored == trailing_stops[call.symbol]

\* C6: ratchet.  A call for a long position never lowers the stored stop of its
\* symbol and a call for a short position never raises it; an activated call
\* stores max(candidate, prior) for long and min(candidate, prior) for short
\* (the candidate itself when nothing was stored).
C6_TrailingRatchet ==
    AfterTrailing =>
        /\ (call.is_long /\ HadStop) => (HasStop /\ TrailStored >= TrailPrior)
        /\ (~call.is_long /\ HadStop) => (HasStop /\ TrailStored <= TrailPrior)
        /\ (risk_config.trailing_stop_enabled /\ TrailActivated) =>
               /\ HasStop
               /\ TrailStored = IF ~HadStop THEN TrailCandidate
                                ELSE IF call.is_long THEN Max(TrailCandidate, TrailPrior)
                                     ELSE Min(TrailCandidate, TrailPrior)

\* C6 witness: an activated long call whose candidate is below the stored stop,
\* which keeps the stored stop.
C6_Witness ==
    /\ AfterTrailing
    /\ call.is_long
    /\ risk_config.trailing_stop_enabled
    /\ TrailActivated
    /\ HadStop
    /\ TrailCandidate < TrailPrior
    /\ TrailStored = TrailPrior

\* C7 as stated: a call that leaves the stored trailing stops unchanged
\* returns none.
C7_NoneWhenUnchanged ==
    (AfterTrailing /\ trailing_stops = call.pre_stops) => call.ret = None

\* C7 amended: update_trailing_stop returns none exactly when trailing stops
\* are disabled or the activation threshold is not met; every activated call
\* returns the stop now stored for the symbol, also when the candidate is not
\* better than the prior value and the stored value therefore did not change.
C7_ReturnsStoredWhenActivated ==
    AfterTrailing =>
        /\ (call.ret # None) <=> (risk_config.trailing_stop_enabled /\ TrailActivated)
        /\ call.ret # None => (HasStop /\ call.ret = Some(TrailStored))

\* C7 witness: an activated call that left the stored stop as it was and
\* returned it.
C7_Witness ==
    /\ AfterTrailing
    /\ HadStop
    /\ trailing_stops = call.pre_stops
    /\ call.ret = Some(TrailPrior)

\* C8: a call below the activation threshold, or with trailing stops
\* disabled, returns none and leaves every stored trailing stop unchanged.
C8_InactiveLeavesStops ==
    (AfterTrailing /\ ~(risk_config.trailing_stop_enabled /\ TrailActivated)) =>
        /\ call.ret = None
        /\ trailing_stops = call.pre_stops

\* C8 witness: trailing stops enabled, a stop stored for the symbol, and a call
\* whose profit is positive but below the activation threshold.
C8_Witness ==
    /\ AfterTrailing
    /\ risk_config.trailing_stop_enabled
    /\ HadStop
    /\ ~TrailActivated
    /\ (IF call.is_long THEN call.current_price > call.entry_price
                        ELSE call.current_price < call.entry_price)
    /\ call.ret = None

(***************************************************************************)
(* Properties of position sizing.                                          *)
(***************************************************************************)
\* min(account_value x max_position_pct, account_value x max_total_exposure_pct
\* - current_exposure), scaled by PctScale.
SizingCapital ==
    Min(call.account_value * max_position_size_pct,
        call.account_value * max_total_exposure_pct - call.current_positions_value * PctScale)

\* C9: fixed-fractional sizing returns floor(min(account_value x
\* max_position_pct, account_value x max_total_exposure_pct - current_exposure)
\* / entry) for entry > 0, and 0 when that capital is <= 0; the result is an
\* integer >= 0 and the stop price does not enter it.
C9_FixedFractional ==
    call.op = "fixed_fractional" =>
        /\ call.ret \in Nat
        /\ call.ret = IF SizingCapital <= 0 THEN 0
                      ELSE SizingCapital \div (call.entry_price * PctScale)

\* C9 witness: a call in which the remaining exposure, not the position cap,
\* limits the capital, and the quantity is positive.
C9_Witness ==
    /\ call.op = "fixed_fractional"
    /\ call.account_value * max_total_exposure_pct - call.current_positions_value * PctScale
           < call.account_value * max_position_size_pct
    /\ call.ret > 0

\* min(max(0, 0.5 x (win_rate - (1 - win_rate) / 2.0)), max_position_pct),
\* scaled by 4 * PctScale.
KellyFraction4 == Min(Max(0, 3 * call.win_rate - PctScale), 4 * max_position_size_pct)

KellyCapital4 ==
    Min(call.account_value * KellyFraction4,
        4 * (call.account_value * max_total_exposure_pct
                 - call.current_positions_value * PctScale))

\* C10: Kelly sizing uses the fraction min(max(0, 0.5 x (win_rate - (1 -
\* win_rate) / 2.0)), max_position_pct) and then the exposure cap and the floor
\* of fixed-fractional sizing; with win_rate = 0.6 and max_position_size_pct =
\* 0.10 the fraction is exactly 10%; a non-positive Kelly fraction gives 0.
C10_KellySizing ==
    call.op = "kelly_criterion" =>
        /\ call.kelly_pct4 = KellyFraction4
        /\ call.ret = IF KellyCapital4 <= 0 THEN 0
                      ELSE KellyCapital4 \div (call.entry_price * 4 * PctScale)
        /\ call.win_rate = 6000 => call.kelly_pct4 = 4 * 1000
        /\ 3 * call.win_rate - PctScale <= 0 => call.ret = 0

\* C10 witness: win_rate = 0.6 on a 10,000 account with nothing open and an
\* entry of 50: the capped 10% gives 20 shares.
C10_Witness ==
    /\ call.op = "kelly_criterion"
    /\ call.win_rate = 6000
    /\ call.account_value = 10000
    /\ call.current_positions_value = 0
    /\ call.entry_price = 50
    /\ call.ret = 20

\* C11: volatility-adjusted sizing is fixed-fractional sizing: for every entry,
\* stop, account value and exposure, calculate_position_size under
\* "volatility_adjusted" returns the quantity it returns under
\* "fixed_fractional"; the call takes no ATR value.
C11_VolatilityEqualsFixed ==
    (call.op = "calculate_position_size" /\ call.method = "volatility_adjusted") =>
        call.ret = CalculatePositionSize("fixed_fractional", call.symbol, call.entry_price,
                       call.stop_loss_price, call.account_value,
                       call.current_positions_value, call.win_rate)

\* C11 witness: a volatility-adjusted call that the exposure cap cuts to 10
\* shares at 50.
C11_Witness ==
    /\ call.op = "calculate_position_size"
    /\ call.method = "volatility_adjusted"
    /\ call.entry_price = 50
    /\ call.current_positions_value = 4500
    /\ call.account_value = 10000
    /\ call.ret = 10

\* C38: without a win_rate, as the engine calls it, calculate_position_size
\* returns the fixed-fractional quantity under every sizing method, known or
\* not; the Kelly quantity is returned only under "kelly_criterion" with a
\* win_rate other than 0.
C38_NoWinRateIsFixedFractional ==
    call.op = "calculate_position_size" =>
        call.ret = IF call.method = "kelly_criterion" /\ call.win_rate \notin {None, Some(0)}
                   THEN KellyCriterionSize(call.entry_price, call.stop_loss_price,
                            call.account_value, call.current_positions_value,
                            call.win_rate[1])
                   ELSE FixedFractionalSize(call.entry_price, call.stop_loss_price,
                            call.account_value, call.current_positions_value)

\* C38 witness: the configured "kelly_criterion" called without a win_rate on
\* a 10,000 account with nothing open and an entry of 50 gives the 20 shares
\* of fixed-fractional sizing.
C38_Witness ==
    /\ call.op = "calculate_position_size"
    /\ call.method = position_sizing_method
    /\ call.win_rate = None
    /\ call.account_value = 10000
    /\ call.current_positions_value = 0
    /\ call.entry_price = 50
    /\ call.ret = 20

(***************************************************************************)
(* Properties of the stop-loss price.                                      *)
(***************************************************************************)
AfterStopLoss == call.op = "calculate_stop_loss"

\* C12: stop_loss(entry, is_long, atr) returns entry x (1 -/+ static_pct) in
\* static mode; in dynamic mode with an atr it returns entry -/+ atr x
\* multiplier; in dynamic mode with a missing atr it returns the static value.
C12_StopLoss ==
    AfterStopLoss =>
        /\ call.stop_loss_type = "static" =>
               call.ret = StaticStopLoss(call.entry_price, call.is_long)
        /\ (call.stop_loss_type = "dynamic" /\ call.atr # None) =>
               call.ret = DynamicStopLoss(call.entry_price, call.is_long, call.atr[1])
        /\ (call.stop_loss_type = "dynamic" /\ call.atr = None) =>
               call.ret = StaticStopLoss(call.entry_price, call.is_long)

\* C12 as the code has it: the dynamic price is returned in dynamic mode with
\* an atr other than 0; a missing atr and an atr of 0 give the static value, as
\* does static mode.
C12_StopLossNonzeroAtr ==
    AfterStopLoss =>
        /\ call.stop_loss_type = "static" =>
               call.ret = StaticStopLoss(call.entry_price, call.is_long)
        /\ (call.stop_loss_type = "dynamic" /\ call.atr \notin {None, Some(0)}) =>
               call.ret = DynamicStopLoss(call.entry_price, call.is_long, call.atr[1])
        /\ (call.stop_loss_type = "dynamic" /\ call.atr \in {None, Some(0)}) =>
               call.ret = StaticStopLoss(call.entry_price, call.is_long)

\* C12 witness: entry 100, long, atr 2 in dynamic mode gives 96.
C12_Witness ==
    /\ AfterStopLoss
    /\ call.stop_loss_type = "dynamic"
    /\ call.entry_price = 100
    /\ call.is_long
    /\ call.atr = Some(2)
    /\ call.ret = 96 * PctScale

(***************************************************************************)
(* Properties of martingale sizing.                                        *)
(***************************************************************************)
AfterMartingale == call.op = "apply_martingale"

\* The counter of the call's symbol before and after the call; a symbol
\* without an entry counts 0 losses.
LossesBefore == DictGet(call.pre_losses, call.symbol, 0)

LossesAfter == DictGet(consecutive_losses, call.symbol, 0)

\* C13: with martingale enabled the counter of the symbol goes up by one on a
\* loss and back to 0 on a win, and the call returns base_size x
\* 2^min(counter, max_doublings), never more than base_size x 2^max_doublings;
\* with max_doublings = 2 the counts 0, 1, 2, 3 give 1x, 2x, 4x, 4x.
C13_MartingaleSequence ==
    (AfterMartingale /\ call.enabled) =>
        /\ LossesAfter = IF call.lost_previous_trade THEN LossesBefore + 1 ELSE 0
        /\ call.ret = call.base_size * 2 ^ Min(LossesAfter, martingale_max_doublings)
        /\ call.ret <= call.base_size * 2 ^ martingale_max_doublings
        /\ martingale_max_doublings = 2 =>
               /\ LossesAfter = 0 => call.ret = call.base_size
               /\ LossesAfter = 1 => call.ret = 2 * call.base_size
               /\ LossesAfter >= 2 => call.ret = 4 * call.base_size
        /\ \A s \in DOMAIN call.pre_losses \ {call.symbol} :
               s \in DOMAIN consecutive_losses /\ consecutive_losses[s] = call.pre_losses[s]

\* C13 witness: the third loss in a row, sized at the cap of the second.
C13_Witness ==
    /\ AfterMartingale
    /\ call.enabled
    /\ call.lost_previous_trade
    /\ LossesBefore = 2
    /\ LossesAfter = 3
    /\ call.base_size = 10
    /\ call.ret = 40

\* C14: with enable_martingale unset apply_martingale returns base_size and
\* leaves every consecutive-loss counter as it was.
C14_MartingaleDisabled ==
    (AfterMartingale /\ ~call.enabled) =>
        /\ call.ret = call.base_size
        /\ consecutive_losses = call.pre_losses

\* C14 witness: a loss reported with martingale disabled.
C14_Witness ==
    /\ AfterMartingale
    /\ ~risk_config.enable_martingale
    /\ call.lost_previous_trade
    /\ call.base_size = 10
    /\ call.ret = 10
    /\ consecutive_losses = << >>

(***************************************************************************)
(* Properties of the positions in the ledger.                              *)
(***************************************************************************)
\* C15: every Position in the ledger has its stop-loss on the loss side of its
\* entry price and its take-profit on the profit side: stop < entry < target
\* for a long Position, target < entry < stop for a short one.
C15_LevelsOnTheirSides ==
    \A s \in DOMAIN active_positions :
        LET p == active_positions[s]
        IN  IF p.quantity > 0
            THEN /\ p.stop_loss < p.entry_price * LevelScale
                 /\ p.entry_price * LevelScale < p.take_profit
            ELSE /\ p.take_profit < p.entry_price * LevelScale
                 /\ p.entry_price * LevelScale < p.stop_loss

\* C15 witness: a short Position of TrendFollower is in the ledger, its stop
\* 2% above EMA21.
C15_Witness ==
    /\ "SPY" \in DOMAIN active_positions
    /\ active_positions["SPY"].strategy = "TrendFollower"
    /\ active_positions["SPY"].quantity < 0
    /\ active_positions["SPY"].stop_loss > 52 * LevelScale

(***************************************************************************)
(* Properties of the entry point and of the status query.                  *)
(***************************************************************************)
\* C16: a configuration with max_position_size_pct > 0.25 or
\* max_total_exposure_pct > 1.0 is rejected by validation, and a rejected
\* configuration never leads to the trading loops being started.
C16_RejectedConfigNeverStarts ==
    main_local.pc # "none" =>
        /\ (\/ main_local.config.max_position_size_pct > 2500
            \/ main_local.config.max_total_exposure_pct > PctScale)
               => ~Validate(main_local.config)
        /\ ~Validate(main_local.config) =>
               /\ main_local.pc = "exited"
               /\ main_local.exit_code = 1
               /\ ~running
               /\ scan_pc = "none"
               /\ mon_pc = "none"

\* C16 witness: main() has exited on a configuration whose only fault is a
\* total exposure above 100%.
C16_Witness ==
    /\ main_local.pc = "exited"
    /\ main_local.exit_code = 1
    /\ main_local.config.app_key
    /\ main_local.config.app_secret
    /\ main_local.config.account_number
    /\ main_local.config.max_position_size_pct = 2500
    /\ main_local.config.max_total_exposure_pct > PctScale
    /\ ~running

\* C18: the status query returns the last-known daily PnL, trade count and
\* open-position count also when the broker's account call fails; a broker
\* failure does not turn the status query into an error.
C18_StatusSurvivesBrokerFailure ==
    call.op = "get_status" =>
        /\ call.ret # None
        /\ call.ret[1].daily_pnl = daily_pnl
        /\ call.ret[1].daily_trades = daily_trades
        /\ call.ret[1].active_positions = Cardinality(DOMAIN active_positions)

(***************************************************************************)
(* The exit of a position.                                                 *)
(***************************************************************************)
\* The step of _close_position that removes the position from the ledger.
LedgerRemoval ==
    /\ mon_pc = "close_del"
    /\ mon_local.symbol \in DOMAIN active_positions
    /\ mon_local.symbol \notin DOMAIN active_positions'

\* The position of the end-to-end example is in the ledger: long, entry 50,
\* stop 49, target 52, quantity 20 (a tenth of 10,000 at 50).
ExamplePosition ==
    /\ mon_local.symbol \in DOMAIN active_positions
    /\ LET pos_info == active_positions[mon_local.symbol]
       IN  /\ pos_info.quantity = 20
           /\ pos_info.entry_price = 50
           /\ pos_info.stop_loss = 49 * LevelScale
           /\ pos_info.take_profit = 52 * LevelScale

\* The monitor loop saw the example position as long at a price of 52, closed
\* it for "Take Profit Hit", and the exit quote was 52 as well.
ExampleExit ==
    /\ ExamplePosition
    /\ mon_local.pos_info = active_positions[mon_local.symbol]
    /\ mon_local.is_long
    /\ mon_local.current_price = 52
    /\ close_local.reason = "Take Profit Hit"
    /\ close_local.exit_price = 52

\* C19: end to end, the long signal at entry 50, stop 49, target 52 with an
\* account value of 10,000 opens a position of quantity 20, and when the price
\* is seen at 52 the position is exited and record_trade is called with the
\* realized PnL 20 x (52 - 50) = 40.
C19_EndToEnd ==
    [][(LedgerRemoval /\ ExampleExit)
          => (close_local.recorded = 1 /\ close_local.pnl = 40)]_vars

\* C20: every removal of a position from the ledger on a stop or target
\* breach comes with exactly one record_trade call for that position, made by
\* the close that removes it, whatever the trading mode.
C20_RemovalRecordsTrade ==
    [][LedgerRemoval => close_local.recorded = 1]_vars

(***************************************************************************)
(* The loops.                                                              *)
(***************************************************************************)
\* C21: every monitor cycle fetches the price and evaluates the exit of each
\* position in the ledger, whether or not the broker's position list holds
\* its symbol: the positions a cycle sets out to visit cover the ledger.
C21_MonitorWalksLedger ==
    [][(mon_pc \in {"top", "backoff"} /\ mon_pc' = "position")
          => \A s \in DOMAIN active_positions :
                \E i \in 1..Len(mon_positions') : mon_positions'[i].symbol = s]_vars

\* The scan loop is at a strategy of the symbol it processes, an earlier
\* strategy has returned a signal for that symbol in this pass, and the
\* position of that signal is in the ledger.
EarlierSignal ==
    /\ scan_pc = "strategy"
    /\ LET symbol == stream_symbols[scan_local.idx]
       IN  \E k \in 1..(scan_local.strat - 1) :
              /\ Analyze(Strategies[k], symbol, scan_local.indicators[1]) # None
              /\ symbol \in DOMAIN active_positions
              /\ active_positions[symbol].strategy = Strategies[k]

\* A step of the scan thread.
ScanStep == scan_pc' # scan_pc \/ scan_local' # scan_local

\* C22: in one scan pass at most one signal per symbol is acted on: once a
\* strategy has returned a signal, a later strategy of the same symbol stores
\* no position and places no order.
C22_OneSignalPerSymbol ==
    [][(EarlierSignal /\ ScanStep) => UNCHANGED <<active_positions, orders>>]_vars

\* A step of the monitor thread.
MonitorStep == mon_pc' # mon_pc \/ mon_positions' # mon_positions

\* The monitor cycle is at a position of the ledger and has another position
\* of the ledger still to visit.
TwoLedgerPositionsToVisit ==
    /\ mon_pc = "position"
    /\ mon_positions # << >>
    /\ Head(mon_positions).symbol \in DOMAIN active_positions
    /\ \E i \in 2..Len(mon_positions) :
          mon_positions[i].symbol \in DOMAIN active_positions

\* C23: a failure to fetch the price of one position is isolated to that
\* position: whatever the visit of a position does, the other positions of
\* the ledger are still visited in the same cycle.
C23_QuoteFailureIsolated ==
    [][(TwoLedgerPositionsToVisit /\ MonitorStep)
          => mon_positions' = Tail(mon_positions)]_vars

\* C25: in a scan cycle in which can_trade returns false no candidate is
\* scanned, no signal is generated, no order is submitted and the ledger is
\* unchanged; the loop sleeps and goes back to the head of the cycle, where
\* can_trade is called again.
C25_RefusalSkipsScan ==
    /\ ~scan_local.can_trade => scan_pc \in {"top", "done"}
    /\ scan_pc \in {"symbol", "strategy"} =>
           /\ scan_local.can_trade
           /\ scan_local.idx \in 1..Len(stream_symbols)

\* can_trade has refused, with a position in the ledger, and the loop is back
\* at its head.
C25_Witness ==
    /\ ~scan_local.can_trade
    /\ scan_pc = "top"
    /\ active_positions # << >>
    /\ running

\* The scan thread takes a step from a symbol that is not in the ledger and
\* does not go on to the strategies: the quote or the history failed.
FetchFails ==
    /\ scan_pc = "symbol"
    /\ stream_symbols[scan_local.idx] \notin DOMAIN active_positions
    /\ ScanStep
    /\ scan_pc' # "strategy"

\* The ledger holds the same for symbol s after the step as before it.
LedgerKeeps(s) ==
    /\ s \in DOMAIN active_positions' <=> s \in DOMAIN active_positions
    /\ s \in DOMAIN active_positions => active_positions'[s] = active_positions[s]

\* C24: a scan-loop failure to fetch the quote or the history of a candidate
\* skips that candidate only: the pass goes on to the next candidate, if there
\* is one, and no step of the pass opens a position for a symbol whose fetch
\* failed in it.
C24_ScanFailureSkipsSymbol ==
    [][/\ FetchFails =>
             /\ UNCHANGED <<active_positions, orders>>
             /\ scan_local.idx < Len(stream_symbols) =>
                    /\ scan_pc' = "symbol"
                    /\ scan_local'.idx = scan_local.idx + 1
                    /\ scan_local'.account_value = scan_local.account_value
       /\ ScanStep => \A s \in scan_local.failed : LedgerKeeps(s)]_vars

\* After a failed fetch for SPY the same pass has gone on to QQQ and opened a
\* position for it.
C24_Witness ==
    /\ scan_local.failed = {"SPY"}
    /\ scan_local.idx = 2
    /\ "QQQ" \in DOMAIN active_positions
    /\ "SPY" \notin DOMAIN active_positions

\* C26: one evaluation of a position goes stop-loss breach, take-profit
\* breach, trailing-stop update, and the trailing stop is updated only when
\* neither breach fired: a step that rewrites a trailing stop is the step of
\* an evaluation without a close, and it leaves the ledger as it is.
C26_TrailingOnlyWithoutBreach ==
    [][trailing_stops' # trailing_stops
          => (mon_pc = "position" /\ UNCHANGED active_positions)]_vars

\* A _close_position call for a position of the ledger ends without an exit:
\* the exit quote or the exit order failed.
CloseFails ==
    /\ mon_pc = "close"
    /\ mon_local.symbol \in DOMAIN active_positions
    /\ close_local' # close_local
    /\ "exit_price" \notin DOMAIN close_local'

AfterExecuteSignal == call.op = "execute_signal"

\* The call left the ledger and the order count as they were.
EntryAborted ==
    /\ active_positions = call.pre_positions
    /\ orders = call.pre_orders

C29_ZeroSizeBlocksTrade ==
    (AfterExecuteSignal /\ call.failed = "none" /\ call.position_size = 0)
        => EntryAborted

\* A call that computed the size 0, on an account value of 0.
C29_Witness ==
    /\ AfterExecuteSignal
    /\ call.failed = "none"
    /\ call.position_size = 0
    /\ call.account_value = 0

(***************************************************************************)
(* Properties of the order payloads.                                       *)
(***************************************************************************)
\* The validation contract, stated on the payload itself.
MeetsContract(order) ==
    /\ {"orderType", "session", "duration", "orderStrategyType", "orderLegCollection"}
           \subseteq DOMAIN order
    /\ order.orderLegCollection # << >>
    /\ \A i \in 1..Len(order.orderLegCollection) :
          LET leg == order.orderLegCollection[i]
          IN  /\ {"instruction", "quantity", "instrument"} \subseteq DOMAIN leg
              /\ {"symbol", "assetType"} \subseteq DOMAIN leg.instrument

C33_OrdersOnlyInLiveMode ==
    [][orders' # orders => trading_mode = "live"]_vars

\* C34: in every state the exposure of the ledger, the sum of |quantity| x
\* entry price over its positions, is at most account value x
\* max_total_exposure_pct, in paper mode as in live mode.
C34_LedgerExposureCapped ==
    \A account_value \in EngineAccountValues :
        LedgerExposure(active_positions) * PctScale <= account_value * max_total_exposure_pct

\* The limits of can_trade hold on the day's counters as they stand.
WithinDailyLimits ==
    LET st == ResetDailyStats(now, daily_pnl, daily_trades, daily_reset_time)
    IN  \A account_value \in EngineAccountValues :
            CanTradeCheck(st.pnl, st.trades, account_value).allowed

\* C35: no position is opened while the daily PnL is below the loss limit or
\* the daily trade count is at its cap, also when the monitor loop's
\* record_trade crosses the limit in the middle of a scan pass.
C35_NoEntryPastLimits ==
    [][entries' > entries => WithinDailyLimits]_vars

\* C36: a trailing-stop value is stored only for symbols that have an open
\* position in the ledger, so a new position never inherits the trailing
\* value of an earlier one.
C36_TrailingOnlyForOpenPositions ==
    mon_pc \in {"none", "top", "backoff", "done"}
        => DOMAIN trailing_stops \subseteq DOMAIN active_positions

\* C37: a quote without a last price, read as 0, never triggers a close nor a
\* recorded trade: no close is under way on a monitored price of 0.
C37_MissingPriceNeverCloses ==
    mon_pc \in {"close", "record_read_pnl", "record_write_pnl", "record_read_trades",
                "record_write_trades", "close_del"}
        => mon_local.current_price # 0

\* A step of a loop from its loop test into a cycle.
CycleBegins ==
    \/ scan_pc \in {"top", "backoff"} /\ scan_pc' \notin {scan_pc, "done"}
    \/ mon_pc \in {"top", "backoff"} /\ mon_pc' \notin {mon_pc, "done"}

C31_LoopErrorsNeverEndLoop ==
    /\ scan_pc = "done" => stop_event
    /\ mon_pc = "done" => stop_event
    /\ (scan_pc = "backoff" /\ LoopRuns) => ENABLED ScanLoopTop
    /\ (mon_pc = "backoff" /\ LoopRuns) => ENABLED MonitorLoopTop

\* Both loops are in the backoff sleep of a failed cycle, on a running engine
\* with a position in the ledger.
C31_Witness ==
    /\ scan_pc = "backoff"
    /\ mon_pc = "backoff"
    /\ LoopRuns
    /\ active_positions # << >>

\* C30: once stop() has been signalled the scan loop starts no further
\* per-symbol unit of work: having finished the symbol it was processing, it
\* does not go on to the strategies of the next symbol.
C30_NoUnitAfterStop ==
    [][(stop_event /\ scan_pc = "symbol" /\ scan_local.idx > 1)
          => scan_pc' # "strategy"]_vars

\* C17: after stop() has been called both the scan loop and the monitor loop
\* eventually exit, given that each network call and sleep in flight returns;
\* stop() itself returns after its bounded joins whether or not a loop has
\* exited by then.
C17_CancellationLiveness ==
    stop_event ~> (scan_pc = "done" /\ mon_pc = "done")

\* stop() was called while positions had been opened, and both loops have
\* left.
C17_Witness ==
    /\ stop_event
    /\ ~running
    /\ scan_pc = "done"
    /\ mon_pc = "done"
    /\ entries > 0

====
